---- MODULE Spec2Model ----
(***************************************************************************)
(* Model of the gallery inventory portal's catalog synchronization engine: *)
(* the Square catalog writer (api/square-upload.js), the catalog reader    *)
(* (api/square-inventory.js), the delete and KV endpoints, and the portal  *)
(* component that drives them (InventoryPortal).                           *)
(*                                                                         *)
(* Strings that the code inspects character by character (names, category  *)
(* names, descriptions) are sequences of one-character strings.  Provider  *)
(* ids are positive integers, 0 stands for null / undefined.               *)
(***************************************************************************)
EXTENDS Integers, Sequences, FiniteSets, TLC

\* ------------------------------------------------------------------ bounds

\* Largest number of records in one write batch.
MaxBatch == 2
\* Largest number of outbound calls that fail (non-OK answer or thrown error).
MaxFaults == 2
\* Largest value of the millisecond clock (Date.now()).
MaxClock == 1
\* Number of portal operations (add, edit, archive, restore) one client starts.
MaxOps == 2

\* ----------------------------------------------------------------- strings

Max(S) == CHOOSE x \in S : \A y \in S : y <= x
Min(S) == CHOOSE x \in S : \A y \in S : x <= y

\* String.prototype.startsWith
StartsWith(s, p) == Len(p) <= Len(s) /\ SubSeq(s, 1, Len(p)) = p

\* The positions at which p occurs in s.
IndexesOf(s, p) ==
    { i \in 1..(Len(s) - Len(p) + 1) : SubSeq(s, i, i + Len(p) - 1) = p }

\* String.prototype.includes
Includes(s, p) == IndexesOf(s, p) # {}

\* String.prototype.lastIndexOf, 1-based; 0 when p does not occur.
LastIndexOf(s, p) == IF Includes(s, p) THEN Max(IndexesOf(s, p)) ELSE 0

IsSpace(c) == c \in {" ", "\n"}

\* String.prototype.trim
Trim(s) ==
    LET keep == { i \in 1..Len(s) : ~IsSpace(s[i]) }
    IN  IF keep = {} THEN << >> ELSE SubSeq(s, Min(keep), Max(keep))

LowerChar(c) ==
    CASE c = "J" -> "j"
      [] c = "D" -> "d"
      [] c = "A" -> "a"
      [] c = "P" -> "p"
      [] c = "M" -> "m"
      [] c = "N" -> "n"
      [] c = "E" -> "e"
      [] OTHER -> c

\* String.prototype.toLowerCase
ToLowerCase(s) == [ i \in 1..Len(s) |-> LowerChar(s[i]) ]

\* The separator of a display category name, "{artist} - {type}".
SEP == << " ", "-", " " >>

\* ---------------------------------------------------------------- inputs

\* Artist names and artwork types of the submitted records.
Artists == { << "A" >> }
Types == { << "P" >> }

\* item.quantity as JSON carries it: a number, or the string of a form field.
QNum(n) == [kind |-> "number", n |-> n]
QStr(n) == [kind |-> "string", n |-> n]
Quantities == { QNum(2), QStr(0) }

\* The detail of the provider's first error, when it sends one.
DETAIL == "provider error detail"
NETWORK == "fetch failed"

\* What one outbound call can come to: the provider answers OK, answers
\* non-OK with an error detail, answers non-OK without one, or fetch throws.
Outcomes == { "ok", "rej", "thr" }
WriteOutcomes == { "ok", "rej", "rejbare", "thr" }

VARIABLES
    now,        \* Date.now()
    env,        \* the environment variables that are set
    sq,         \* the provider: categories, items, id counter, idempotency keys
    up,         \* per request: the upload handler's locals and its response
    api,        \* the API client: what it has sent, and the batch it sent
    faults,     \* outbound calls that have failed so far
    portal,     \* the InventoryPortal component: member, inventory, archive
    kv,         \* the key-value store's entry 'cbg-archive'
    pure,       \* a pure function at work: its input and its result
    rd,         \* the inventory handler: its locals, its calls and its response
    peer        \* a second InventoryPortal component, in another browser

\* The outcomes still open to a call: once the failures allowed are used up,
\* every call is answered OK.
Open(S) == IF faults < MaxFaults THEN S ELSE { "ok" }

\* The failure count after a call that came to o.
Counted(o) == IF o = "ok" THEN faults ELSE faults + 1

\* ---------------------------------------------------------------- provider

\* catalog/search with an exact name query: the id of the first category of
\* that name, 0 when there is none.
SqSearch(s, name) ==
    LET hits == { k \in 1..Len(s.cats) : s.cats[k].name = name }
    IN  IF hits = {} THEN 0 ELSE s.cats[Min(hits)].id

\* The object an idempotency key was used for, 0 when the key is new.
SqKeyed(s, key) ==
    LET hits == { e \in s.keys : e.key = key }
    IN  IF hits = {} THEN 0 ELSE (CHOOSE e \in hits : TRUE).id

\* catalog/object with a CATEGORY: a request that repeats an idempotency key
\* is collapsed into the first one; otherwise a new category object is stored.
SqCreateCategory(s, key, name) ==
    IF SqKeyed(s, key) # 0 THEN [sq |-> s, id |-> SqKeyed(s, key)]
    ELSE [sq |-> [s EXCEPT !.cats = Append(@, [id |-> s.nextId, name |-> name]),
                           !.nextId = @ + 1,
                           !.keys = @ \cup { [key |-> key, id |-> s.nextId] }],
          id |-> s.nextId]

\* catalog/object with a new ITEM (client id "#item-..."): the item and its one
\* variation get fresh ids and version 1.
SqCreateItem(s, key, obj) ==
    IF SqKeyed(s, key) # 0
    THEN [sq |-> s, id |-> SqKeyed(s, key), varId |-> SqKeyed(s, key) + 1]
    ELSE [sq |-> [s EXCEPT !.items = @ \cup
                               { [id |-> s.nextId, version |-> 1, name |-> obj.name,
                                  categories |-> obj.categories,
                                  reporting |-> obj.reporting,
                                  varId |-> s.nextId + 1, varVersion |-> 1,
                                  count |-> 0, origin |-> obj.origin] },
                           !.nextId = @ + 2,
                           !.keys = @ \cup { [key |-> key, id |-> s.nextId] }],
          id |-> s.nextId, varId |-> s.nextId + 1]

SqItem(s, id) == CHOOSE x \in s.items : x.id = id

SqCanUpdateAnyVersion(s, obj) == \E x \in s.items : x.id = obj.id

\* Whether catalog/object accepts an update of an existing ITEM: the object
\* exists and every version token sent is the current one.
SqCanUpdate(s, obj) ==
    \E x \in s.items :
        /\ x.id = obj.id
        /\ x.version = obj.version
        /\ obj.withVar => (x.varId = obj.varId /\ x.varVersion = obj.varVersion)

\* catalog/object with an existing ITEM: the fields sent replace the stored
\* ones and the objects written get the next version.
SqUpdateItem(s, obj) ==
    LET x == SqItem(s, obj.id)
        y == [x EXCEPT !.version = @ + 1,
                       !.name = obj.name,
                       !.categories = IF obj.categoryId # 0 THEN obj.categoryId ELSE @,
                       !.varVersion = IF obj.withVar THEN @ + 1 ELSE @]
    IN  [s EXCEPT !.items = (@ \ {x}) \cup {y}]

\* inventory/changes/batch-create with a PHYSICAL_COUNT: the count of the
\* variation becomes the quantity.
SqSetCount(s, varId, n) ==
    [s EXCEPT !.items = { IF x.varId = varId THEN [x EXCEPT !.count = n] ELSE x : x \in @ }]

\* inventory/changes/batch-create with an ADJUSTMENT from NONE to IN_STOCK:
\* the quantity is added to the count.
SqAdjustCount(s, varId, n) ==
    [s EXCEPT !.items = { IF x.varId = varId THEN [x EXCEPT !.count = @ + n] ELSE x : x \in @ }]

\* DELETE catalog/object/{id}
SqDelete(s, id) == [s EXCEPT !.items = { x \in @ : x.id # id }]

\* ------------------------------------------------- upload handler: shared

Reqs == { "api", "portal" }

NoRes == [status |-> 0, success |-> FALSE, results |-> << >>, error |-> ""]

IdleReq ==
    [ep |-> "none", pc |-> "idle", items |-> << >>, i |-> 0, results |-> << >>,
     categoryId |-> 0, reportingCategoryId |-> 0, squareId |-> 0, variationId |-> 0,
     categoryCache |-> {}, reportingCategoryCache |-> {},
     res |-> NoRes, calls |-> << >>, startNames |-> {}]

\* !SQUARE_ACCESS_TOKEN || !SQUARE_LOCATION_ID
CredsMissing == ~({"SQUARE_ACCESS_TOKEN", "SQUARE_LOCATION_ID"} \subseteq env)

\* res.status(..).json(..): the request is answered and the handler is over.
Respond(st, status, success, results, error) ==
    [st EXCEPT !.pc = "done",
               !.res = [status |-> status, success |-> success,
                        results |-> results, error |-> error]]

CaughtAsSuccess(st, message) == Respond(st, 200, TRUE, << >>, message)

\* The handler's catch block: status 500, { success: false, error }.
Caught(st, message) == Respond(st, 500, FALSE, << >>, message)

\* The record of one outbound call, kept as the request's history: the batch
\* position, the call, its outcome, the category name or the category ids sent.
Call(st, call, out, name, cat, rep) ==
    [st EXCEPT !.calls = Append(@, [i |-> st.i, call |-> call, out |-> out,
                                    name |-> name, cat |-> cat, rep |-> rep])]

\* `${item.artistName} - ${item.type}`
CategoryNameOf(item) == item.artistName \o SEP \o item.type

\* str.replace(/\s/g, '-')
DashSpaces(s) == [ k \in 1..Len(s) |-> IF IsSpace(s[k]) THEN "-" ELSE s[k] ]

\* [a-zA-Z0-9], over the characters the inputs are written in
Alnum == { "A", "D", "J", "M", "P", "a", "d", "j", "m", "p", "0", "1", "2" }

\* catName.replace(/[^a-zA-Z0-9]/g, '-')
DashNonAlnum(s) == [ k \in 1..Len(s) |-> IF s[k] \in Alnum THEN s[k] ELSE "-" ]

\* Date.now().  The keys one iteration of the loop builds differ in their
\* prefix, so the clock is read once per record: `now` is its value while the
\* current record is processed, and it moves on, or not, between two records.
Clock == now..Max({ now, MaxClock })

\* An idempotency key: a prefix, a sanitized name or a local id, and Date.now().
IdemKey(kind, name, id) == [kind |-> kind, name |-> name, id |-> id, at |-> now]

\* item.quantity || 1
QuantityOrOne(q) == IF q.n = 0 /\ q.kind = "number" THEN QNum(1) ELSE q

\* item.<field>: a field the record does not have reads as undefined, which
\* is 0 here, as is null.
Get(item, field) == IF field \in DOMAIN item THEN item[field] ELSE 0

\* One entry of results.
Result(item, squareId, variationId, success, action, error) ==
    [originalId |-> item.id, squareId |-> squareId, variationId |-> variationId,
     success |-> success, action |-> action, error |-> error]

\* -------------------------- upload handler: export default (lines 536-691)

\* The head of `for (const item of items)` at position st.i: the response after
\* the last record, else the branch on item.squareId up to its first call.
Dispatch(st) ==
    IF st.i > Len(st.items)
    THEN Respond(st, 200, TRUE, st.results, "")
    ELSE LET item == st.items[st.i]
             st0 == [st EXCEPT !.categoryId = 0, !.reportingCategoryId = 0,
                               !.squareId = 0, !.variationId = 0]
         IN  IF Get(item, "squareId") # 0
             THEN IF item.artistName # << >> /\ item.type # << >>
                  THEN [st0 EXCEPT !.pc = "uCatSearch"]
                  ELSE [st0 EXCEPT !.pc = "uWrite"]
             ELSE [st0 EXCEPT !.pc = "cCatSearch"]

\* The end of one iteration: on to the next record.
Advance(st) == Dispatch([st EXCEPT !.i = @ + 1])

\* The request reaches the handler: credential check, then the first record.
HandlerBegin(st) ==
    IF CredsMissing
    THEN Respond(st, 500, FALSE, << >>, "Square credentials not configured")
    ELSE Dispatch([st EXCEPT !.i = 1,
                             !.startNames = { sq.cats[k].name : k \in 1..Len(sq.cats) }])

Item(r) == up[r].items[up[r].i]

\* UPDATE branch: search the display category by name.
UCatSearch(r) ==
    /\ up[r].ep = "handler" /\ up[r].pc = "uCatSearch"
    /\ \E o \in Open(Outcomes) :
        LET name == CategoryNameOf(Item(r))
            st == Call(up[r], "search", o, name, 0, 0)
            found == IF o = "ok" THEN SqSearch(sq, name) ELSE 0
        IN  /\ faults' = Counted(o)
            /\ up' = [up EXCEPT ![r] =
                IF o = "thr" THEN Caught(st, NETWORK)
                ELSE [st EXCEPT !.categoryId = found,
                                !.pc = IF found # 0 THEN "uWrite" ELSE "uCatCreate"]]
    /\ UNCHANGED << now, env, sq, api, portal, kv, pure, rd, peer >>

\* UPDATE branch: create the display category that the search did not find.
UCatCreate(r) ==
    /\ up[r].ep = "handler" /\ up[r].pc = "uCatCreate"
    /\ \E o \in Open(Outcomes) :
        LET name == CategoryNameOf(Item(r))
            st == Call(up[r], "createCategory", o, name, 0, 0)
            made == SqCreateCategory(sq, IdemKey("cat", DashNonAlnum(name), 0), name)
        IN  /\ faults' = Counted(o)
            /\ up' = [up EXCEPT ![r] =
                   IF o = "thr" THEN Caught(st, NETWORK)
                   ELSE [st EXCEPT !.categoryId = IF o = "ok" THEN made.id ELSE 0,
                                   !.pc = "uWrite"]]
            /\ sq' = IF o = "ok" THEN made.sq ELSE sq
    /\ UNCHANGED << now, env, api, portal, kv, pure, rd, peer >>

\* The object of an UPDATE: the item's id and version, its name, the category
\* if one was resolved, and the variation only with a variation id and a price.
UpdateObject(item, categoryId) ==
    [id |-> item.squareId, version |-> item.version, name |-> item.title,
     categoryId |-> categoryId,
     withVar |-> Get(item, "variationId") # 0 /\ "price" \in DOMAIN item /\ item.price # "",
     varId |-> Get(item, "variationId"), varVersion |-> Get(item, "variationVersion")]

\* data.errors?.[0]?.detail || 'Failed to update'
UpdateError(o) == IF o = "rejbare" THEN "Failed to update" ELSE DETAIL

OnUpdateRejectedThrows(st, item, error) == Caught(st, error)

\* !response.ok in the UPDATE branch: a failure entry is pushed and the loop
\* continues with the next record.
OnUpdateRejected(st, item, error) ==
    Advance([st EXCEPT !.results =
        Append(@, Result(item, item.squareId, 0, FALSE, "", error))])

\* response.ok in the UPDATE branch.
OnUpdated(st, item) ==
    Advance([st EXCEPT !.results =
        Append(@, Result(item, item.squareId, 0, TRUE, "updated", ""))])

\* UPDATE branch: the item write and the record's result.
UWrite(r) ==
    /\ up[r].ep = "handler" /\ up[r].pc = "uWrite"
    /\ \E o \in Open(WriteOutcomes), t \in Clock :
        LET item == Item(r)
            obj == UpdateObject(item, up[r].categoryId)
            accepted == o = "ok" /\ SqCanUpdate(sq, obj)
            st == Call(up[r], "updateItem", IF o = "ok" /\ ~accepted THEN "rej" ELSE o,
                       << >>, obj.categoryId, 0)
        IN  /\ faults' = Counted(o)
            /\ up' = [up EXCEPT ![r] =
                   IF o = "thr" THEN Caught(st, NETWORK)
                   ELSE IF accepted THEN OnUpdated(st, item)
                   ELSE OnUpdateRejected(st, item, UpdateError(o))]
            /\ sq' = IF accepted THEN SqUpdateItem(sq, obj) ELSE sq
            /\ now' = IF o = "thr" THEN now ELSE t
    /\ UNCHANGED << env, api, portal, kv, pure, rd, peer >>

\* CREATE branch: search the display category by name.
CCatSearch(r) ==
    /\ up[r].ep = "handler" /\ up[r].pc = "cCatSearch"
    /\ \E o \in Open(Outcomes) :
        LET name == CategoryNameOf(Item(r))
            st == Call(up[r], "search", o, name, 0, 0)
            found == IF o = "ok" THEN SqSearch(sq, name) ELSE 0
        IN  /\ faults' = Counted(o)
            /\ up' = [up EXCEPT ![r] =
                IF o = "thr" THEN Caught(st, NETWORK)
                ELSE [st EXCEPT !.categoryId = found,
                                !.pc = IF found # 0 THEN "cRepSearch" ELSE "cCatCreate"]]
    /\ UNCHANGED << now, env, sq, api, portal, kv, pure, rd, peer >>

\* CREATE branch: create the display category; a non-OK answer leaves
\* categoryId undefined.
CCatCreate(r) ==
    /\ up[r].ep = "handler" /\ up[r].pc = "cCatCreate"
    /\ \E o \in Open(Outcomes) :
        LET name == CategoryNameOf(Item(r))
            st == Call(up[r], "createCategory", o, name, 0, 0)
            made == SqCreateCategory(sq, IdemKey("cat", DashSpaces(name), 0), name)
        IN  /\ faults' = Counted(o)
            /\ up' = [up EXCEPT ![r] =
                   IF o = "thr" THEN Caught(st, NETWORK)
                   ELSE [st EXCEPT !.categoryId = IF o = "ok" THEN made.id ELSE 0,
                                   !.pc = "cRepSearch"]]
            /\ sq' = IF o = "ok" THEN made.sq ELSE sq
    /\ UNCHANGED << now, env, api, portal, kv, pure, rd, peer >>

\* CREATE branch: search the reporting category (the artist name).
CRepSearch(r) ==
    /\ up[r].ep = "handler" /\ up[r].pc = "cRepSearch"
    /\ \E o \in Open(Outcomes) :
        LET name == Item(r).artistName
            st == Call(up[r], "search", o, name, 0, 0)
            found == IF o = "ok" THEN SqSearch(sq, name) ELSE 0
        IN  /\ faults' = Counted(o)
            /\ up' = [up EXCEPT ![r] =
                IF o = "thr" THEN Caught(st, NETWORK)
                ELSE [st EXCEPT !.reportingCategoryId = found,
                                !.pc = IF found # 0 THEN "cItem" ELSE "cRepCreate"]]
    /\ UNCHANGED << now, env, sq, api, portal, kv, pure, rd, peer >>

\* CREATE branch: create the reporting category.
CRepCreate(r) ==
    /\ up[r].ep = "handler" /\ up[r].pc = "cRepCreate"
    /\ \E o \in Open(Outcomes) :
        LET name == Item(r).artistName
            st == Call(up[r], "createCategory", o, name, 0, 0)
            made == SqCreateCategory(sq, IdemKey("repcat", DashSpaces(name), 0), name)
        IN  /\ faults' = Counted(o)
            /\ up' = [up EXCEPT ![r] =
                   IF o = "thr" THEN Caught(st, NETWORK)
                   ELSE [st EXCEPT !.reportingCategoryId = IF o = "ok" THEN made.id ELSE 0,
                                   !.pc = "cItem"]]
            /\ sq' = IF o = "ok" THEN made.sq ELSE sq
    /\ UNCHANGED << now, env, api, portal, kv, pure, rd, peer >>

\* The ITEM object of a CREATE: categories is [] and reporting_category is
\* undefined when the id is missing.
ItemData(item, categoryId, reportingCategoryId) ==
    [name |-> item.title, categories |-> categoryId,
     reporting |-> reportingCategoryId, origin |-> item.id]

\* variationId && quantity > 0, with quantity = item.quantity || 1
WantsInventory(item, variationId) ==
    variationId # 0 /\ QuantityOrOne(item.quantity).n > 0

\* data.errors?.[0]?.detail || 'Failed to upload to Square'
CreateError(o) == IF o = "rejbare" THEN "Failed to upload to Square" ELSE DETAIL

\* !response.ok in the CREATE branch: throw new Error(..), which the handler's
\* catch block answers.
OnCreateRejected(st, item, error) == Caught(st, error)

\* CREATE branch: the item write.  A non-OK answer throws out of the loop into
\* the catch block; otherwise the inventory step follows, or the result.
CItem(r) ==
    /\ up[r].ep = "handler" /\ up[r].pc = "cItem"
    /\ \E o \in Open(WriteOutcomes), t \in Clock :
        LET item == Item(r)
            obj == ItemData(item, up[r].categoryId, up[r].reportingCategoryId)
            st == Call(up[r], "createItem", o, << >>, obj.categories, obj.reporting)
            made == SqCreateItem(sq, IdemKey("item", << >>, item.id), obj)
            variationId == made.varId
            st1 == [st EXCEPT !.squareId = made.id, !.variationId = variationId]
        IN  /\ faults' = Counted(o)
            /\ up' = [up EXCEPT ![r] =
                   CASE o = "thr" -> Caught(st, NETWORK)
                     [] o \in { "rej", "rejbare" } -> OnCreateRejected(st, item, CreateError(o))
                     [] OTHER ->
                        IF WantsInventory(item, variationId)
                        THEN [st1 EXCEPT !.pc = "cInv"]
                        ELSE Advance([st1 EXCEPT !.results =
                                 Append(@, Result(item, made.id, variationId, TRUE, "created", ""))])]
            /\ sq' = IF o = "ok" THEN made.sq ELSE sq
            /\ now' = IF o = "ok" /\ ~WantsInventory(item, variationId) THEN t ELSE now
    /\ UNCHANGED << env, api, portal, kv, pure, rd, peer >>

\* setInventoryQuantity: true on an OK answer; a non-OK answer and a thrown
\* error are both caught and give false.
SetInventoryQuantity(o) == o = "ok"

\* CREATE branch: the inventory step, then the record's result.
CInv(r) ==
    /\ up[r].ep = "handler" /\ up[r].pc = "cInv"
    /\ \E o \in Open(Outcomes), t \in Clock :
        LET item == Item(r)
            st == Call(up[r], "setInventory", o, << >>, 0, 0)
            inventorySet == SetInventoryQuantity(o)
        IN  /\ faults' = Counted(o)
            /\ up' = [up EXCEPT ![r] =
                   Advance([st EXCEPT !.results =
                       Append(@, Result(item, st.squareId, st.variationId, TRUE, "created", ""))])]
            /\ sq' = IF inventorySet
                     THEN SqSetCount(sq, up[r].variationId, QuantityOrOne(item.quantity).n)
                     ELSE sq
            /\ now' = t
    /\ UNCHANGED << env, api, portal, kv, pure, rd, peer >>

\* ------------------------- upload handler: module.exports (lines 223-530)

IdLimit == 50

IsIdChar(c) == c \in Alnum \/ IsSpace(c) \/ c = "-"

\* .replace(/-+/g, '-')
RECURSIVE CollapseDashes(_)
CollapseDashes(s) ==
    IF Len(s) < 2 THEN s
    ELSE IF s[1] = "-" /\ s[2] = "-" THEN CollapseDashes(Tail(s))
    ELSE << s[1] >> \o CollapseDashes(Tail(s))

\* sanitizeForId: special characters removed, each run of spaces and hyphens
\* turned into one hyphen, at most 50 characters kept.
sanitizeForId(str) ==
    LET dashed == CollapseDashes(DashSpaces(SelectSeq(str, IsIdChar)))
    IN  SubSeq(dashed, 1, Min({ IdLimit, Len(dashed) }))

\* reportingCategoryCache[artistName], categoryCache[categoryName]: the cached
\* id, 0 for none.
Cached(cache, name) ==
    IF \E e \in cache : e.name = name
    THEN (CHOOSE e \in cache : e.name = name).id
    ELSE 0

\* cache[name] = id
CachePut(cache, name, id) ==
    { e \in cache : e.name # name } \cup { [name |-> name, id |-> id] }

\* Step 2 of an iteration: the display category from categoryCache, else the
\* search for it.
ExportsStep2(st) ==
    LET cached == Cached(st.categoryCache, CategoryNameOf(st.items[st.i]))
    IN  IF cached # 0
        THEN [st EXCEPT !.categoryId = cached, !.pc = "xItem"]
        ELSE [st EXCEPT !.pc = "xCatSearch"]

\* The head of the loop at position st.i: the response after the last record,
\* else getOrCreateReportingCategory up to its first call.
ExportsDispatch(st) ==
    IF st.i > Len(st.items)
    THEN Respond(st, 200, TRUE, st.results, "")
    ELSE LET st0 == [st EXCEPT !.categoryId = 0, !.reportingCategoryId = 0,
                               !.squareId = 0, !.variationId = 0]
             cached == Cached(st.reportingCategoryCache, st.items[st.i].artistName)
         IN  IF cached # 0
             THEN ExportsStep2([st0 EXCEPT !.reportingCategoryId = cached])
             ELSE [st0 EXCEPT !.pc = "xRepSearch"]

ExportsAdvance(st) == ExportsDispatch([st EXCEPT !.i = @ + 1])

\* The request reaches the handler: missing credentials throw inside the try.
ExportsBegin(st) ==
    IF CredsMissing
    THEN Caught(st, "Square credentials not configured")
    ELSE ExportsDispatch([st EXCEPT !.i = 1,
                                    !.startNames = { sq.cats[k].name : k \in 1..Len(sq.cats) }])

\* getOrCreateReportingCategory: the search by artist name.
XRepSearch(r) ==
    /\ up[r].ep = "exports" /\ up[r].pc = "xRepSearch"
    /\ \E o \in Open(Outcomes) :
        LET name == Item(r).artistName
            st == Call(up[r], "search", o, name, 0, 0)
            found == IF o = "ok" THEN SqSearch(sq, name) ELSE 0
        IN  /\ faults' = Counted(o)
            /\ up' = [up EXCEPT ![r] =
                IF o = "thr" THEN Caught(st, NETWORK)
                ELSE IF found # 0
                THEN ExportsStep2([st EXCEPT
                         !.reportingCategoryId = found,
                         !.reportingCategoryCache = CachePut(@, name, found)])
                ELSE [st EXCEPT !.pc = "xRepCreate"]]
    /\ UNCHANGED << now, env, sq, api, portal, kv, pure, rd, peer >>

\* getOrCreateReportingCategory: the create; a non-OK answer returns null and
\* caches nothing.
XRepCreate(r) ==
    /\ up[r].ep = "exports" /\ up[r].pc = "xRepCreate"
    /\ \E o \in Open(Outcomes) :
        LET name == Item(r).artistName
            st == Call(up[r], "createCategory", o, name, 0, 0)
            made == SqCreateCategory(sq, IdemKey("reporting-category", sanitizeForId(name), 0), name)
        IN  /\ faults' = Counted(o)
            /\ up' = [up EXCEPT ![r] =
                   CASE o = "thr" -> Caught(st, NETWORK)
                     [] o = "rej" -> ExportsStep2(st)
                     [] OTHER -> ExportsStep2([st EXCEPT
                                    !.reportingCategoryId = made.id,
                                    !.reportingCategoryCache = CachePut(@, name, made.id)])]
            /\ sq' = IF o = "ok" THEN made.sq ELSE sq
    /\ UNCHANGED << now, env, api, portal, kv, pure, rd, peer >>

\* Step 2: the search for the display category.
XCatSearch(r) ==
    /\ up[r].ep = "exports" /\ up[r].pc = "xCatSearch"
    /\ \E o \in Open(Outcomes) :
        LET name == CategoryNameOf(Item(r))
            st == Call(up[r], "search", o, name, 0, 0)
            found == IF o = "ok" THEN SqSearch(sq, name) ELSE 0
        IN  /\ faults' = Counted(o)
            /\ up' = [up EXCEPT ![r] =
                IF o = "thr" THEN Caught(st, NETWORK)
                ELSE IF found # 0
                THEN [st EXCEPT !.categoryId = found,
                                !.categoryCache = CachePut(@, name, found),
                                !.pc = "xItem"]
                ELSE [st EXCEPT !.pc = "xCatCreate"]]
    /\ UNCHANGED << now, env, sq, api, portal, kv, pure, rd, peer >>

\* data.errors?.[0]?.detail || 'Failed to create category'
CategoryError(o) == IF o = "rejbare" THEN "Failed to create category" ELSE DETAIL

\* !categoryResponse.ok in step 2: throw new Error(..), which the handler's
\* catch block answers.
OnCategoryRejected(st, error) == Caught(st, error)

\* Step 2: the create of the display category.
XCatCreate(r) ==
    /\ up[r].ep = "exports" /\ up[r].pc = "xCatCreate"
    /\ \E o \in Open(WriteOutcomes) :
        LET name == CategoryNameOf(Item(r))
            st == Call(up[r], "createCategory", o, name, 0, 0)
            made == SqCreateCategory(sq, IdemKey("category", sanitizeForId(name), 0), name)
        IN  /\ faults' = Counted(o)
            /\ up' = [up EXCEPT ![r] =
                   CASE o = "thr" -> Caught(st, NETWORK)
                     [] o \in { "rej", "rejbare" } -> OnCategoryRejected(st, CategoryError(o))
                     [] OTHER -> [st EXCEPT !.categoryId = made.id,
                                            !.categoryCache = CachePut(@, name, made.id),
                                            !.pc = "xItem"]]
            /\ sq' = IF o = "ok" THEN made.sq ELSE sq
    /\ UNCHANGED << now, env, api, portal, kv, pure, rd, peer >>

\* variationId && item.quantity
HasQuantity(item, variationId) ==
    variationId # 0 /\ ~(item.quantity.kind = "number" /\ item.quantity.n = 0)

\* Step 3: the item write.  A non-OK answer throws.
XItem(r) ==
    /\ up[r].ep = "exports" /\ up[r].pc = "xItem"
    /\ \E o \in Open(WriteOutcomes), t \in Clock :
        LET item == Item(r)
            obj == ItemData(item, up[r].categoryId, up[r].reportingCategoryId)
            st == Call(up[r], "createItem", o, << >>, obj.categories, obj.reporting)
            made == SqCreateItem(sq, IdemKey("item", << >>, item.id), obj)
            st1 == [st EXCEPT !.squareId = made.id, !.variationId = made.varId]
        IN  /\ faults' = Counted(o)
            /\ up' = [up EXCEPT ![r] =
                   CASE o = "thr" -> Caught(st, NETWORK)
                     [] o \in { "rej", "rejbare" } -> OnCreateRejected(st, item, CreateError(o))
                     [] OTHER ->
                        IF HasQuantity(item, made.varId)
                        THEN [st1 EXCEPT !.pc = "xInv"]
                        ELSE ExportsAdvance([st1 EXCEPT !.results =
                                 Append(@, Result(item, made.id, made.varId, TRUE, "", ""))])]
            /\ sq' = IF o = "ok" THEN made.sq ELSE sq
            /\ now' = IF o = "ok" /\ ~HasQuantity(item, made.varId) THEN t ELSE now
    /\ UNCHANGED << env, api, portal, kv, pure, rd, peer >>

\* A thrown error of the inventory fetch is not caught next to the call: it
\* reaches the handler's catch block.
OnInventoryThrew(st, item) == Caught(st, NETWORK)

\* Step 4: the inventory adjustment; a non-OK answer is logged only.
XInv(r) ==
    /\ up[r].ep = "exports" /\ up[r].pc = "xInv"
    /\ \E o \in Open(Outcomes), t \in Clock :
        LET item == Item(r)
            st == Call(up[r], "adjustInventory", o, << >>, 0, 0)
        IN  /\ faults' = Counted(o)
            /\ up' = [up EXCEPT ![r] =
                   IF o = "thr" THEN OnInventoryThrew(st, item)
                   ELSE ExportsAdvance([st EXCEPT !.results =
                           Append(@, Result(item, st.squareId, st.variationId, TRUE, "", ""))])]
            /\ sq' = IF o = "ok"
                     THEN SqAdjustCount(sq, up[r].variationId, QuantityOrOne(item.quantity).n)
                     ELSE sq
            /\ now' = IF o = "thr" THEN now ELSE t
    /\ UNCHANGED << env, api, portal, kv, pure, rd, peer >>

\* ------------------------------- inventory reader (square-inventory.js)

\* The items of a catalog/list answer, by id.
RECURSIVE SeqOfIds(_)
SeqOfIds(S) ==
    IF S = {} THEN << >>
    ELSE LET m == Min(S) IN << m >> \o SeqOfIds(S \ { m })

\* categories[id]: the name the category listing gave for the id, '' for none.
\* A non-OK answer of the category listing leaves the map empty.
CategoryName(s, id, catsListed) ==
    IF catsListed /\ \E k \in 1..Len(s.cats) : s.cats[k].id = id
    THEN s.cats[CHOOSE k \in 1..Len(s.cats) : s.cats[k].id = id].name
    ELSE << >>

\* categoryName: from categories[0], else from reporting_category.
ItemCategoryName(s, x, catsListed) ==
    IF CategoryName(s, x.categories, catsListed) # << >>
    THEN CategoryName(s, x.categories, catsListed)
    ELSE CategoryName(s, x.reporting, catsListed)

ArtistBeforeFirstDash(categoryName) ==
    IF Includes(categoryName, SEP)
    THEN SubSeq(categoryName, 1, Min(IndexesOf(categoryName, SEP)) - 1)
    ELSE categoryName

\* categoryName.substring(0, dashIndex) at the last ' - ', else the whole name
ArtistFromCategory(categoryName) ==
    IF Includes(categoryName, SEP)
    THEN SubSeq(categoryName, 1, LastIndexOf(categoryName, SEP) - 1)
    ELSE categoryName

\* categoryName.substring(dashIndex + 3), else ''
TypeFromCategory(categoryName) ==
    IF Includes(categoryName, SEP)
    THEN SubSeq(categoryName, LastIndexOf(categoryName, SEP) + 3, Len(categoryName))
    ELSE << >>

\* The record the reader returns for a catalog item.  inventoryCounts has no
\* entry, so quantity is 0, when the counts were not retrieved.
InventoryRecord(s, x, catsListed, countsListed) ==
    LET categoryName == ItemCategoryName(s, x, catsListed)
    IN  [id |-> x.id, squareId |-> x.id, variationId |-> x.varId,
         version |-> x.version, variationVersion |-> x.varVersion,
         title |-> x.name, artistName |-> ArtistFromCategory(categoryName),
         category |-> categoryName, type |-> TypeFromCategory(categoryName),
         quantity |-> QNum(IF countsListed THEN x.count ELSE 0), status |-> "live"]

MatchesWholeNameOnly(item, artistName) ==
    Trim(ToLowerCase(item.artistName)) = Trim(ToLowerCase(artistName))

\* The predicate of items.filter: artist name lower-cased and trimmed, the
\* category lower-cased only.
Matches(item, artistName) ==
    LET searchName == Trim(ToLowerCase(artistName))
        itemArtist == Trim(ToLowerCase(item.artistName))
    IN  \/ itemArtist = searchName
        \/ StartsWith(itemArtist, searchName)
        \/ StartsWith(ToLowerCase(item.category), searchName)

\* if (artistName) { filteredItems = items.filter(..) }
FilterItems(items, artistName) ==
    IF artistName # << >>
    THEN SelectSeq(items, LAMBDA item : Matches(item, artistName))
    ELSE items

\* The items of a 200 answer of /api/square-inventory.
ListInventory(s, artistName, catsListed, countsListed) ==
    LET ids == SeqOfIds({ x.id : x \in s.items })
        items == [ k \in 1..Len(ids) |->
                     InventoryRecord(s, SqItem(s, ids[k]), catsListed, countsListed) ]
    IN  FilterItems(items, artistName)

\* fetchSquareInventory: data.items of a success answer, else [].  The handler
\* fails without credentials, on a failed item listing, and on a thrown error
\* of the category listing or of the count retrieval.
fetchSquareInventory(s, artistName, oi, oc, ov) ==
    IF CredsMissing \/ oi # "ok" \/ oc = "thr" \/ ov = "thr"
    THEN << >>
    ELSE ListInventory(s, artistName, oc = "ok", ov = "ok")

\* A provider account with an empty catalog.
EmptyCatalog == [cats |-> << >>, items |-> {}, nextId |-> 1, keys |-> {}]

\* The catalog an earlier, fully accepted CREATE leaves: the display category,
\* the reporting category and one live item with its stock count.
SeededCatalog ==
    LET a == CHOOSE x \in Artists : TRUE
        t == CHOOSE x \in Types : TRUE
        k(kind, name, id) == [kind |-> kind, name |-> name, id |-> id, at |-> 0 - 1]
        c1 == SqCreateCategory(EmptyCatalog, k("cat", a \o SEP \o t, 0), a \o SEP \o t)
        c2 == SqCreateCategory(c1.sq, k("repcat", a, 0), a)
        it == SqCreateItem(c2.sq, k("item", << >>, 0),
                           [name |-> "T1", categories |-> c1.id, reporting |-> c2.id,
                            origin |-> 0])
    IN  SqSetCount(it.sq, it.varId, 1)

\* ------------------------------------------------------------ the requests

\* A record with no provider id: the CREATE path.
CreateRecord(id, artistName, type, quantity) ==
    [id |-> id, squareId |-> 0, variationId |-> 0, version |-> 0,
     variationVersion |-> 0, title |-> "T1", artistName |-> artistName,
     type |-> type, price |-> "12.50", quantity |-> quantity]

\* The records a client can send for a live item: the ids and version tokens it
\* read, now or before the item's last write, with an edited title.
UpdateRecords ==
    UNION { { [id |-> x.id, squareId |-> x.id, variationId |-> x.varId, version |-> v,
               variationVersion |-> x.varVersion, title |-> "T2", artistName |-> a,
               type |-> t, price |-> p, quantity |-> QStr(1)] :
                 v \in { x.version - 1, x.version }, a \in Artists,
                 t \in Types, p \in { "", "12.50" } } : x \in sq.items }

\* The records that can stand at position k of a batch.
RecordsAt(k) ==
    { CreateRecord(k, a, t, q) : a \in Artists, t \in Types, q \in Quantities }
        \cup UpdateRecords

Batches ==
    UNION { { b \in [1..n -> UNION { RecordsAt(k) : k \in 1..n }] :
                \A k \in 1..n : b[k] \in RecordsAt(k) } : n \in 1..MaxBatch }

\* A client posts a batch to /api/square-upload.
Submit(r) ==
    /\ r = "api" /\ api.pc = "idle"
    /\ \E b \in Batches, t \in Clock :
        /\ up' = [up EXCEPT ![r] = HandlerBegin([IdleReq EXCEPT !.ep = "handler", !.items = b])]
        /\ api' = [pc |-> "sent", batch |-> b]
        /\ now' = t
    /\ UNCHANGED << env, sq, faults, portal, kv, pure, rd, peer >>

\* The client's request was answered with a failure: it posts the same batch
\* again.
Retry(r) ==
    /\ r = "api" /\ api.pc = "sent"
    /\ up[r].pc = "done" /\ ~up[r].res.success
    /\ up' = [up EXCEPT ![r] = HandlerBegin([IdleReq EXCEPT !.ep = "handler", !.items = api.batch])]
    /\ api' = [api EXCEPT !.pc = "retried"]
    /\ now' \in Clock
    /\ UNCHANGED << env, sq, faults, portal, kv, pure, rd, peer >>

\* A client posts a batch to the module.exports handler.
SubmitExports(r) ==
    /\ r = "api" /\ api.pc = "idle"
    /\ \E b \in Batches, t \in Clock :
        /\ up' = [up EXCEPT ![r] = ExportsBegin([IdleReq EXCEPT !.ep = "exports", !.items = b])]
        /\ api' = [pc |-> "sent", batch |-> b]
        /\ now' = t
    /\ UNCHANGED << env, sq, faults, portal, kv, pure, rd, peer >>

\* ------------------------------------- InventoryPortal (unnamed/part_004)

Members == { [full_name |-> << "A" >>, role |-> role] : role \in { "admin", "artist" } }

isAdmin(member) == member.role \in { "admin", "it" }

NoItem == [squareId |-> 0]

\* The component before it is mounted.
PortalOff(member) ==
    [pc |-> "off", member |-> member, inventory |-> << >>, archive |-> << >>,
     cur |-> NoItem, last |-> [op |-> "none", ok |-> FALSE, squareId |-> 0, local |-> 0],
     ops |-> 0]

\* The second component before it is mounted.
PeerOff == PortalOff(CHOOSE m \in Members : isAdmin(m))

\* How many of the calls with these outcomes failed.
Fails(outs) == Cardinality({ k \in DOMAIN outs : outs[k] # "ok" })

Within(outs) == faults + Fails(outs) <= MaxFaults

\* loadInventory: the member's own items unless the member is an admin.
loadInventory(s, member, oi, oc, ov) ==
    fetchSquareInventory(s, IF isAdmin(member) THEN << >> ELSE member.full_name, oi, oc, ov)

\* kvGet('cbg-archive'): the parsed value, null (here << >>, which loadArchive
\* ignores as it ignores null) for a missing entry or a failed call.
kvGet(og) == IF og = "ok" /\ kv.set THEN kv.value ELSE << >>

kvSetMerged(value, os) ==
    IF os = "ok"
    THEN [set |-> TRUE,
          value |-> kv.value \o SelectSeq(value, LAMBDA a :
                        ~\E j \in 1..Len(kv.value) : kv.value[j] = a)]
    ELSE kv

\* kvSet('cbg-archive', value): the entry after the call.
kvSet(value, os) == IF os = "ok" THEN [set |-> TRUE, value |-> value] ELSE kv

\* useEffect on mount: loadInventory() and loadArchive().
Mount ==
    /\ portal.pc = "mount"
    /\ \E oi, oc, ov, og \in Outcomes :
        /\ Within(<< oi, oc, ov, og >>)
        /\ faults' = faults + Fails(<< oi, oc, ov, og >>)
        /\ portal' = [portal EXCEPT
               !.pc = "idle",
               !.inventory = loadInventory(sq, portal.member, oi, oc, ov),
               !.archive = IF kvGet(og) # << >> THEN kvGet(og) ELSE @]
    /\ UNCHANGED << now, env, sq, up, api, kv, pure, rd, peer >>

\* new Date().toISOString()
ISOString(t) == [iso |-> t]

\* { ...item, archivedAt, archivedBy }
ArchivedItem(item, member, t) ==
    item @@ [archivedAt |-> ISOString(t), archivedBy |-> member.full_name]

\* /api/square-delete: success is true only when the token is set, an item id
\* was sent and the provider answered the DELETE with OK.
deleteFromSquare(s, itemId, od) ==
    /\ "SQUARE_ACCESS_TOKEN" \in env
    /\ itemId # 0
    /\ od = "ok" /\ \E x \in s.items : x.id = itemId

\* handleArchive: delete upstream; on success append to the archive, save it
\* and reload the inventory.  Two operations of a member are at least a
\* millisecond apart.
handleArchive(k) ==
    /\ portal.pc = "idle" /\ portal.ops < MaxOps
    /\ k \in 1..Len(portal.inventory)
    /\ \E od, os, oi, oc, ov \in Outcomes :
        LET item == portal.inventory[k]
            outs == << od, os, oi, oc, ov >>
            success == deleteFromSquare(sq, item.squareId, od)
            newArchive == Append(portal.archive, ArchivedItem(item, portal.member, now + 1))
            sq1 == IF success THEN SqDelete(sq, item.squareId) ELSE sq
        IN  /\ Within(outs)
            /\ ~success => os = "ok" /\ oi = "ok" /\ oc = "ok" /\ ov = "ok"
            /\ faults' = faults + Fails(outs)
            /\ sq' = sq1
            /\ kv' = IF success THEN kvSet(newArchive, os) ELSE kv
            /\ portal' = [portal EXCEPT
                   !.ops = @ + 1,
                   !.archive = IF success THEN newArchive ELSE @,
                   !.inventory = IF success
                                 THEN loadInventory(sq1, portal.member, oi, oc, ov)
                                 ELSE @,
                   !.last = [op |-> "archive", ok |-> success,
                             squareId |-> item.squareId, local |-> 0]]
    /\ now' = now + 1
    /\ UNCHANGED << env, up, api, pure, rd, peer >>

RestoreItemKeepsIds(item, t) ==
    [ f \in (DOMAIN item \ { "archivedAt", "archivedBy" }) \cup { "id" } |->
        IF f = "id" THEN t ELSE item[f] ]

\* const { archivedAt, archivedBy, squareId, variationId, ...itemData } = item;
\* { ...itemData, id: Date.now() }
RestoreItem(item, t) ==
    [ f \in (DOMAIN item \ { "archivedAt", "archivedBy", "squareId", "variationId" })
             \cup { "id" } |->
        IF f = "id" THEN t ELSE item[f] ]

\* The component posts one record to /api/square-upload and awaits the answer.
Upload(item) ==
    [up EXCEPT !["portal"] =
        HandlerBegin([IdleReq EXCEPT !.ep = "handler", !.items = << item >>])]

\* handleRestore up to uploadToSquare([restoreItem]).
handleRestore(k) ==
    /\ portal.pc = "idle" /\ portal.ops < MaxOps
    /\ k \in 1..Len(portal.archive)
    /\ up' = Upload(RestoreItem(portal.archive[k], now + 1))
    /\ portal' = [portal EXCEPT !.pc = "restoring", !.ops = @ + 1,
                                 !.cur = portal.archive[k]]
    /\ now' = now + 1
    /\ UNCHANGED << env, sq, api, faults, kv, pure, rd, peer >>

\* handleRestore after the answer: on success the record leaves the archive,
\* the archive is saved and the inventory reloaded.
handleRestoreDone ==
    /\ portal.pc = "restoring" /\ up["portal"].pc = "done"
    /\ \E os, oi, oc, ov \in Outcomes :
        LET result == up["portal"].res
            outs == << os, oi, oc, ov >>
            newArchive == SelectSeq(portal.archive,
                                    LAMBDA a : a.squareId # portal.cur.squareId)
        IN  /\ Within(outs)
            /\ ~result.success => os = "ok" /\ oi = "ok" /\ oc = "ok" /\ ov = "ok"
            /\ faults' = faults + Fails(outs)
            /\ kv' = IF result.success THEN kvSet(newArchive, os) ELSE kv
            /\ portal' = [portal EXCEPT
                   !.pc = "idle", !.cur = NoItem,
                   !.archive = IF result.success THEN newArchive ELSE @,
                   !.inventory = IF result.success
                                 THEN loadInventory(sq, portal.member, oi, oc, ov)
                                 ELSE @,
                   !.last = [op |-> "restore", ok |-> result.success,
                             squareId |-> portal.cur.squareId,
                             local |-> up["portal"].items[1].id]]
    /\ UNCHANGED << now, env, sq, up, api, pure, rd, peer >>

\* handleAddNew up to uploadToSquare([newItem]): id is Date.now(), the artist
\* is the member, the quantity the form's string.
handleAddNew ==
    /\ portal.pc = "idle" /\ portal.ops < MaxOps
    /\ \E type \in Types :
        up' = Upload(CreateRecord(now + 1, portal.member.full_name, type, QStr(1)))
    /\ portal' = [portal EXCEPT !.pc = "adding", !.ops = @ + 1]
    /\ now' = now + 1
    /\ UNCHANGED << env, sq, api, faults, kv, pure, rd, peer >>

\* handleAddNew after the answer: on success the inventory is reloaded.
handleAddNewDone ==
    /\ portal.pc = "adding" /\ up["portal"].pc = "done"
    /\ \E oi, oc, ov \in Outcomes :
        LET result == up["portal"].res
            outs == << oi, oc, ov >>
        IN  /\ Within(outs)
            /\ ~result.success => oi = "ok" /\ oc = "ok" /\ ov = "ok"
            /\ faults' = faults + Fails(outs)
            /\ portal' = [portal EXCEPT
                   !.pc = "idle",
                   !.inventory = IF result.success
                                 THEN loadInventory(sq, portal.member, oi, oc, ov)
                                 ELSE @,
                   !.last = [op |-> "add", ok |-> result.success, squareId |-> 0,
                             local |-> up["portal"].items[1].id]]
    /\ UNCHANGED << now, env, sq, up, api, kv, pure, rd, peer >>

\* { ...editingItem, ...formData }: the form holds the item's fields as startEdit
\* copied them, with an edited title, the price field as typed, quantity '1'.
UpdatedItem(item, price) ==
    [ f \in DOMAIN item \cup { "price" } |->
        CASE f = "title" -> "T2"
          [] f = "price" -> price
          [] f = "quantity" -> QStr(1)
          [] OTHER -> item[f] ]

\* startEdit and handleEditItem up to uploadToSquare([updatedItem]).
handleEditItem(k) ==
    /\ portal.pc = "idle" /\ portal.ops < MaxOps
    /\ k \in 1..Len(portal.inventory)
    /\ \E price \in { "", "12.50" } :
        up' = Upload(UpdatedItem(portal.inventory[k], price))
    /\ portal' = [portal EXCEPT !.pc = "editing", !.ops = @ + 1]
    /\ now' = now + 1
    /\ UNCHANGED << env, sq, api, faults, kv, pure, rd, peer >>

\* handleEditItem after the answer: on success the inventory is reloaded.
handleEditItemDone ==
    /\ portal.pc = "editing" /\ up["portal"].pc = "done"
    /\ \E oi, oc, ov \in Outcomes :
        LET result == up["portal"].res
            outs == << oi, oc, ov >>
        IN  /\ Within(outs)
            /\ ~result.success => oi = "ok" /\ oc = "ok" /\ ov = "ok"
            /\ faults' = faults + Fails(outs)
            /\ portal' = [portal EXCEPT
                   !.pc = "idle",
                   !.inventory = IF result.success
                                 THEN loadInventory(sq, portal.member, oi, oc, ov)
                                 ELSE @,
                   !.last = [op |-> "edit", ok |-> result.success,
                             squareId |-> up["portal"].items[1].squareId,
                             local |-> 0]]
    /\ UNCHANGED << now, env, sq, up, api, kv, pure, rd, peer >>

vars == << now, env, sq, up, api, faults, portal, kv, pure, rd, peer >>

Init ==
    /\ now = 0
    /\ env \in { {"SQUARE_ACCESS_TOKEN", "SQUARE_LOCATION_ID"}, {"SQUARE_ACCESS_TOKEN"} }
    /\ sq \in { EmptyCatalog, SeededCatalog }
    /\ up = [r \in Reqs |-> IdleReq]
    /\ api = [pc |-> "idle", batch |-> << >>]
    /\ faults = 0
    /\ portal = PortalOff(CHOOSE m \in Members : isAdmin(m))
    /\ kv = [set |-> FALSE, value |-> << >>]
    /\ rd = [pc |-> "off"]
    /\ peer = PeerOff
    /\ pure = [pc |-> "off"]

Next ==
    \/ \E r \in Reqs :
        \/ Submit(r) \/ Retry(r)
        \/ UCatSearch(r) \/ UCatCreate(r) \/ UWrite(r)
        \/ CCatSearch(r) \/ CCatCreate(r) \/ CRepSearch(r) \/ CRepCreate(r)
        \/ CItem(r) \/ CInv(r)

Spec == Init /\ [][Next]_vars

\* The module.exports handler in place of the export-default one.
NextExports ==
    \E r \in Reqs :
        \/ SubmitExports(r)
        \/ XRepSearch(r) \/ XRepCreate(r) \/ XCatSearch(r) \/ XCatCreate(r)
        \/ XItem(r) \/ XInv(r)

SpecExports == Init /\ [][NextExports]_vars

\* The portal of one member over a catalog that holds an item.
InitPortal ==
    /\ now = 0
    /\ env \in { {"SQUARE_ACCESS_TOKEN", "SQUARE_LOCATION_ID"}, {"SQUARE_ACCESS_TOKEN"} }
    /\ sq = SeededCatalog
    /\ up = [r \in Reqs |-> IdleReq]
    /\ api = [pc |-> "idle", batch |-> << >>]
    /\ faults = 0
    /\ \E m \in Members : portal = [PortalOff(m) EXCEPT !.pc = "mount"]
    /\ kv = [set |-> FALSE, value |-> << >>]
    /\ rd = [pc |-> "off"]
    /\ peer = PeerOff
    /\ pure = [pc |-> "off"]

NextPortal ==
    \/ Mount
    \/ \E k \in 1..MaxOps : handleArchive(k) \/ handleRestore(k) \/ handleEditItem(k)
    \/ handleRestoreDone \/ handleEditItemDone
    \/ handleAddNew \/ handleAddNewDone
    \/ \E r \in Reqs :
        \/ UCatSearch(r) \/ UCatCreate(r) \/ UWrite(r)
        \/ CCatSearch(r) \/ CCatCreate(r) \/ CRepSearch(r) \/ CRepCreate(r)
        \/ CItem(r) \/ CInv(r)

SpecPortal == InitPortal /\ [][NextPortal]_vars

\* ------------------------------------------------- description codec

\* The writer's dimensions text: item.dimensions, else built from height and
\* width when both are given.
DimensionsOf(item) ==
    IF item.dimensions # << >> THEN item.dimensions
    ELSE IF item.height # << >> /\ item.width # << >>
    THEN item.height \o << "\"", " ", "x", " " >> \o item.width \o << "\"" >>
    ELSE << >>

\* extraLines.join('\n')
RECURSIVE Join(_)
Join(lines) ==
    IF lines = << >> THEN << >>
    ELSE IF Len(lines) = 1 THEN lines[1]
    ELSE lines[1] \o << "\n" >> \o Join(Tail(lines))

\* The description the writer sends: the free text, a blank line, then the
\* label lines of the fields that are set, trimmed.  A label is one character
\* of the text here.
EncodeDescription(item) ==
    LET line(label, value) == IF value # << >> THEN << << label, " " >> \o value >> ELSE << >>
        extraLines == line("Medium:", item.medium)
                        \o line("Dimensions:", DimensionsOf(item))
                        \o line("Discounts:", item.discounts)
    IN  Trim(item.description
               \o IF extraLines # << >> THEN << "\n", "\n" >> \o Join(extraLines) ELSE << >>)

\* The labels match without regard to case.
Labels(label) ==
    CASE label = "Medium:" -> { "Medium:", "medium:" }
      [] label = "Dimensions:" -> { "Dimensions:", "dimensions:" }
      [] label = "Discounts:" -> { "Discounts:", "discounts:" }

\* The position of the first match of the label in s, 0 for none.
LabelAt(s, label) ==
    LET at == { i \in 1..Len(s) : s[i] \in Labels(label) }
    IN  IF at = {} THEN 0 ELSE Min(at)

\* The first position from i on that holds no blank ([^\S\n]* is skipped).
AfterBlanks(s, i) == Min({ j \in i..(Len(s) + 1) : j > Len(s) \/ s[j] # " " })

\* The position of the first newline from i on, Len(s) + 1 for none.
LineEnd(s, i) == Min({ j \in i..(Len(s) + 1) : j > Len(s) \/ s[j] = "\n" })

\* match(/Label:[^\S\n]*([^\n]*)/i)[1].trim(), '' without a match
Captured(s, label) ==
    LET i == LabelAt(s, label)
        a == AfterBlanks(s, i + 1)
    IN  IF i = 0 THEN << >> ELSE Trim(SubSeq(s, a, LineEnd(s, a) - 1))

\* replace(/Label:[^\S\n]*[^\n]*\n?/i, '')
Unlabelled(s, label) ==
    LET i == LabelAt(s, label)
    IN  IF i = 0 THEN s
        ELSE SubSeq(s, 1, i - 1) \o SubSeq(s, LineEnd(s, i + 1) + 1, Len(s))

\* What the reader makes of a description: medium and dimensions from the
\* first match of their labels, and the text without the label lines, trimmed.
\* The Discounts line is removed and its value is not returned.
DecodeDescription(description) ==
    LET clean1 == Unlabelled(description, "Medium:")
        clean2 == Unlabelled(clean1, "Dimensions:")
    IN  [medium |-> Captured(description, "Medium:"),
         dimensions |-> Captured(description, "Dimensions:"),
         description |-> Trim(Unlabelled(clean2, "Discounts:"))]

\* The texts of at most n characters over an alphabet.
Texts(alphabet, n) == UNION { [1..k -> alphabet] : k \in 0..n }

\* Longest free-text description, in characters.
MaxText == 2

\* The records the codec is run on.
CodecRecords ==
    [description : Texts({ "a", " ", "\n", "Medium:" }, MaxText),
     medium : { << >>, << "m" >>, << "m", " ", "m" >> },
     dimensions : { << >>, << "d" >> },
     height : { << >>, << "8" >> },
     width : { << "9" >> },
     discounts : { << >>, << "c" >> }]

InitCodec ==
    /\ now = 0
    /\ env = {"SQUARE_ACCESS_TOKEN", "SQUARE_LOCATION_ID"}
    /\ sq = EmptyCatalog
    /\ up = [r \in Reqs |-> IdleReq]
    /\ api = [pc |-> "idle", batch |-> << >>]
    /\ faults = 0
    /\ portal = PortalOff(CHOOSE m \in Members : isAdmin(m))
    /\ kv = [set |-> FALSE, value |-> << >>]
    /\ rd = [pc |-> "off"]
    /\ peer = PeerOff
    /\ \E item \in CodecRecords : pure = [pc |-> "record", item |-> item]

\* The writer builds the description of the record.
Encode ==
    /\ pure.pc = "record"
    /\ pure' = [pc |-> "encoded", item |-> pure.item,
                text |-> EncodeDescription(pure.item)]
    /\ UNCHANGED << now, env, sq, up, api, faults, portal, kv, rd, peer >>

\* The reader decodes the description it is given back.
Decode ==
    /\ pure.pc = "encoded"
    /\ pure' = [pc |-> "decoded", item |-> pure.item, text |-> pure.text,
                out |-> DecodeDescription(pure.text)]
    /\ UNCHANGED << now, env, sq, up, api, faults, portal, kv, rd, peer >>

NextCodec == Encode \/ Decode

SpecCodec == InitCodec /\ [][NextCodec]_vars

\* ------------------------------------------------------ artist filter

JaneDoe == << "J", "a", "n", "e", " ", "D", "o", "e" >>
JaneDoherty == << "J", "a", "n", "e", " ", "D", "o", "h", "e", "r", "t", "y" >>

\* The category names the listed items carry: 'Artist - Type' names, one with
\* a leading blank, one without a type, and none.
FilterCategories ==
    { JaneDoe \o SEP \o << "P" >>, JaneDoherty \o SEP \o << "P" >>,
      << "A" >> \o SEP \o << "P" >>, << " ", "A" >> \o SEP \o << "P" >>,
      << "J", "a", "n", "e" >>, << >> }

\* The values of the artistName query parameter; << >> is no filter.
Filters ==
    { << >>, << "j", "a", "n", "e", " ", "d" >>, << "J", "A", "N", "E", " ", "D" >>,
      << " ", "a", " " >>, << "a", " ", "-" >>, << "J", "a", "n", "e" >>,
      JaneDoe, << "p" >>, << " " >> }

\* Largest number of items the reader lists.
MaxItems == 2

\* The record the reader makes of an item with the category name c.
FilterRecord(id, c) ==
    [squareId |-> id, category |-> c,
     artistName |-> ArtistFromCategory(c), type |-> TypeFromCategory(c)]

InitFilter ==
    /\ now = 0
    /\ env = {"SQUARE_ACCESS_TOKEN", "SQUARE_LOCATION_ID"}
    /\ sq = EmptyCatalog
    /\ up = [r \in Reqs |-> IdleReq]
    /\ api = [pc |-> "idle", batch |-> << >>]
    /\ faults = 0
    /\ portal = PortalOff(CHOOSE m \in Members : isAdmin(m))
    /\ kv = [set |-> FALSE, value |-> << >>]
    /\ rd = [pc |-> "off"]
    /\ peer = PeerOff
    /\ \E n \in 1..MaxItems : \E cs \in [1..n -> FilterCategories], f \in Filters :
         pure = [pc |-> "listed", artistName |-> f,
                 items |-> [ k \in 1..n |-> FilterRecord(k, cs[k]) ]]

\* The reader filters the items it listed.
Filter ==
    /\ pure.pc = "listed"
    /\ pure' = [pc |-> "filtered", artistName |-> pure.artistName, items |-> pure.items,
                out |-> FilterItems(pure.items, pure.artistName)]
    /\ UNCHANGED << now, env, sq, up, api, faults, portal, kv, rd, peer >>

NextFilter == Filter

SpecFilter == InitFilter /\ [][NextFilter]_vars

\* ------------------------------------------------- category-name split

\* The other variables of a run that only applies a function of the handlers.
AtRest ==
    /\ now = 0
    /\ env = {"SQUARE_ACCESS_TOKEN", "SQUARE_LOCATION_ID"}
    /\ sq = EmptyCatalog
    /\ up = [r \in Reqs |-> IdleReq]
    /\ api = [pc |-> "idle", batch |-> << >>]
    /\ faults = 0
    /\ portal = PortalOff(CHOOSE m \in Members : isAdmin(m))
    /\ kv = [set |-> FALSE, value |-> << >>]
    /\ rd = [pc |-> "off"]
    /\ peer = PeerOff

\* Longest artist name, type, or bare category name, in characters.
MaxName == 3

\* Artist names, types and category names a provider account can hold.
Names == Texts({ "A", " ", "-" }, MaxName)

\* A category name is the writer's '{artist} - {type}' of a record, or a name
\* the account holds from elsewhere.
InitSplit ==
    /\ AtRest
    /\ \/ \E a \in Names, t \in Names :
            pure = [pc |-> "named", written |-> TRUE, artistName |-> a, type |-> t,
                    category |-> CategoryNameOf([artistName |-> a, type |-> t])]
       \/ \E c \in Names :
            pure = [pc |-> "named", written |-> FALSE, artistName |-> << >>,
                    type |-> << >>, category |-> c]

\* The reader splits the category name of an item.
Split ==
    /\ pure.pc = "named"
    /\ pure' = [pure EXCEPT !.pc = "split"] @@
               [out |-> [artistName |-> ArtistFromCategory(pure.category),
                         type |-> TypeFromCategory(pure.category)]]
    /\ UNCHANGED << now, env, sq, up, api, faults, portal, kv, rd, peer >>

NextSplit == Split

SpecSplit == InitSplit /\ [][NextSplit]_vars

\* ------------------------------------------------------- SKU generation

LowerCase == << "a", "b", "c", "d", "e", "f", "g", "h", "i", "j", "k", "l", "m",
                "n", "o", "p", "q", "r", "s", "t", "u", "v", "w", "x", "y", "z" >>
UpperCase == << "A", "B", "C", "D", "E", "F", "G", "H", "I", "J", "K", "L", "M",
                "N", "O", "P", "Q", "R", "S", "T", "U", "V", "W", "X", "Y", "Z" >>

UpperChar(c) ==
    IF \E k \in 1..26 : LowerCase[k] = c
    THEN UpperCase[CHOOSE k \in 1..26 : LowerCase[k] = c]
    ELSE c

\* String.prototype.toUpperCase
ToUpperCase(s) == [ i \in 1..Len(s) |-> UpperChar(s[i]) ]

\* String.prototype.substring(0, n)
Substring0(s, n) == SubSeq(s, 1, Min({ n, Len(s) }))

\* A character matched by /[\s\-]/.
IsWordBreak(c) == IsSpace(c) \/ c = "-"

\* String.prototype.split(/[\s\-]+/): the pieces between runs of breaks, with
\* an empty piece where the string begins or ends with a run.
RECURSIVE SplitWords(_)
SplitWords(s) ==
    LET breaks == { i \in 1..Len(s) : IsWordBreak(s[i]) }
    IN  IF breaks = {} THEN << s >>
        ELSE LET i == Min(breaks)
                 j == Min({ k \in (i + 1)..(Len(s) + 1) :
                              k = Len(s) + 1 \/ ~IsWordBreak(s[k]) })
             IN  << SubSeq(s, 1, i - 1) >> \o SplitWords(SubSeq(s, j, Len(s)))

\* for (const word of words) if (word.length > 0) initials += word[0].toUpperCase()
RECURSIVE FirstLetters(_)
FirstLetters(words) ==
    IF words = << >> THEN << >>
    ELSE (IF Len(Head(words)) > 0 THEN << UpperChar(Head(words)[1]) >> ELSE << >>)
         \o FirstLetters(Tail(words))

getInitialsNoFallback(name) ==
    IF name = << >> THEN << "X", "X", "X" >>
    ELSE Substring0(FirstLetters(SplitWords(Trim(name))), 4)

\* getInitials
getInitials(name) ==
    IF name = << >> THEN << "X", "X", "X" >>
    ELSE LET initials == FirstLetters(SplitWords(Trim(name)))
         IN  Substring0(IF Len(initials) < 2
                        THEN ToUpperCase(Substring0(name, 3))
                        ELSE initials, 4)

Digit(n) == << "0", "1", "2", "3", "4", "5", "6", "7", "8", "9" >>[n + 1]

\* getSkuNumber: Date.now().toString().slice(-4).  The millisecond clock has
\* thirteen digits, so the slice is the four low digits of its value t.
getSkuNumber(t) ==
    << Digit((t \div 1000) % 10), Digit((t \div 100) % 10),
       Digit((t \div 10) % 10), Digit(t % 10) >>

\* Longest artist name drawn from the alphabet, in characters.
MaxSkuName == 4

JoanFindleyPerls ==
    << "J", "o", "a", "n", " ", "F", "i", "n", "d", "l", "e", "y", "-",
       "P", "e", "r", "l", "s" >>

\* Artist names of the records, '' for a record without one.
SkuNames ==
    Texts({ "a", "B", " ", "-" }, MaxSkuName)
        \cup { JoanFindleyPerls, << "X" >>,
               << "a", " ", "b", " ", "c", " ", "d", " ", "e" >> }

\* Values of the millisecond clock, by their low digits.
SkuTimes == { 0, 7, 1234, 9999, 10000 }

InitSku ==
    /\ AtRest
    /\ \E name \in SkuNames, t \in SkuTimes :
         pure = [pc |-> "record", artistName |-> name, at |-> t]

\* The CREATE branch assembles the SKU of the record.
Sku ==
    /\ pure.pc = "record"
    /\ LET initials == getInitials(pure.artistName)
           skuNum == getSkuNumber(pure.at)
       IN  pure' = [pc |-> "sku", artistName |-> pure.artistName, at |-> pure.at,
                    initials |-> initials, skuNum |-> skuNum,
                    sku |-> initials \o skuNum]
    /\ UNCHANGED << now, env, sq, up, api, faults, portal, kv, rd, peer >>

NextSku == Sku

SpecSku == InitSku /\ [][NextSku]_vars

\* ------------------------------------------------------ price in cents

\* Width of the significand of a Number in the model.  The code's Numbers are
\* IEEE doubles of 53 bits; the model keeps their arithmetic (binary, round
\* to nearest, ties to even) at a width its integers can hold, which makes
\* every rounding error coarser than the code's.
FloatBits == 16

\* Largest whole part of a price, in dollars.
MaxDollars == 99

RECURSIVE BitLength(_)
BitLength(n) == IF n = 0 THEN 0 ELSE 1 + BitLength(n \div 2)

\* The integer nearest to a / b, a tie going to the even one.
RoundEvenDiv(a, b) ==
    LET q == a \div b
        r == a % b
    IN  IF 2 * r < b THEN q
        ELSE IF 2 * r > b THEN q + 1
        ELSE IF q % 2 = 0 THEN q ELSE q + 1

\* A Number is m * 2^e with a significand m of FloatBits bits; zero has m = 0.
Carry(m, e) ==
    IF m = 2^FloatBits THEN [m |-> 2^(FloatBits - 1), e |-> e + 1]
    ELSE [m |-> m, e |-> e]

\* The Number nearest to n * 2^e, for an integer n.
Normalize(n, e) ==
    LET bits == BitLength(n)
    IN  IF n = 0 THEN [m |-> 0, e |-> 0]
        ELSE IF bits <= FloatBits
        THEN [m |-> n * 2^(FloatBits - bits), e |-> e - (FloatBits - bits)]
        ELSE Carry(RoundEvenDiv(n, 2^(bits - FloatBits)), e + (bits - FloatBits))

\* The least k for which a * 2^k / b has FloatBits bits before the point.
RECURSIVE Scale(_, _, _)
Scale(a, b, k) ==
    IF a \div b >= 2^(FloatBits - 1) THEN k ELSE Scale(2 * a, b, k + 1)

\* The Number nearest to the ratio a / b, 0 <= a / b < 2^FloatBits.
FloatOf(a, b) ==
    IF a = 0 THEN [m |-> 0, e |-> 0]
    ELSE LET k == Scale(a, b, 0)
         IN  Carry(RoundEvenDiv(a * 2^k, b), 0 - k)

DigitValue(c) == CHOOSE n \in 0..9 : Digit(n) = c

RECURSIVE DigitsValue(_)
DigitsValue(s) ==
    IF s = << >> THEN 0 ELSE 10 * DigitsValue(SubSeq(s, 1, Len(s) - 1)) + DigitValue(s[Len(s)])

\* parseFloat of a decimal string: the Number nearest to its value.
parseFloat(s) ==
    LET point == IF Includes(s, << "." >>) THEN LastIndexOf(s, << "." >>) ELSE Len(s) + 1
        digits == SubSeq(s, 1, point - 1) \o SubSeq(s, point + 1, Len(s))
    IN  FloatOf(DigitsValue(digits), 10^(Len(s) + 1 - Min({ point + 1, Len(s) + 1 })))

\* x * 100
Times100(x) == Normalize(x.m * 100, x.e)

MathFloor(x) == IF x.e >= 0 THEN x.m * 2^x.e ELSE x.m \div 2^(0 - x.e)

\* Math.round: floor(x + 0.5)
MathRound(x) ==
    IF x.e >= 0 THEN x.m * 2^x.e
    ELSE (2 * x.m + 2^(0 - x.e)) \div 2^(1 - x.e)

\* price_money.amount: Math.round(parseFloat(item.price) * 100)
Amount(price) == MathRound(Times100(parseFloat(price)))

RECURSIVE Decimal(_)
Decimal(n) == IF n < 10 THEN << Digit(n) >> ELSE Decimal(n \div 10) \o << Digit(n % 10) >>

\* Number.prototype.toFixed(2): the integer n with n / 100 nearest to x, the
\* larger of two, written with two decimals.
toFixed2(x) ==
    LET n == IF x.e >= 0 THEN x.m * 2^x.e * 100
             ELSE (2 * x.m * 100 + 2^(0 - x.e)) \div 2^(1 - x.e)
    IN  Decimal(n \div 100) \o << ".", Digit((n \div 10) % 10), Digit(n % 10) >>

\* price: (price_money.amount / 100).toFixed(2), '0.00' without price_money
PriceOf(variationData) ==
    IF variationData.price_money
    THEN toFixed2(FloatOf(variationData.amount, 100))
    ELSE << "0", ".", "0", "0" >>

\* Prices as the form sends them: a whole part and up to two decimals.
Prices ==
    { Decimal(w) \o f : w \in 0..MaxDollars,
        f \in { << >> } \cup { << ".", Digit(d) >> : d \in 0..9 }
                \cup { << ".", Digit(d), Digit(h) >> : d \in 0..9, h \in 0..9 } }

\* A record to create, or an item of the account whose variation has no
\* price_money.
InitPrice ==
    /\ AtRest
    /\ \/ \E p \in Prices : pure = [pc |-> "record", price |-> p]
       \/ pure = [pc |-> "written", price |-> << >>,
                  variationData |-> [price_money |-> FALSE, amount |-> 0]]

\* The writer sends the price of the record in minor units.
WritePrice ==
    /\ pure.pc = "record"
    /\ pure' = [pc |-> "written", price |-> pure.price,
                variationData |-> [price_money |-> TRUE, amount |-> Amount(pure.price)]]
    /\ UNCHANGED << now, env, sq, up, api, faults, portal, kv, rd, peer >>

\* The reader renders the price of the item.
ReadPrice ==
    /\ pure.pc = "written"
    /\ pure' = [pc |-> "read", price |-> pure.price,
                variationData |-> pure.variationData,
                out |-> PriceOf(pure.variationData)]
    /\ UNCHANGED << now, env, sq, up, api, faults, portal, kv, rd, peer >>

NextPrice == WritePrice \/ ReadPrice

SpecPrice == InitPrice /\ [][NextPrice]_vars

\* ----------------------- inventory reader: requests (square-inventory.js)

\* const batchSize = 100
batchSize == 100

\* Largest number of items the provider account holds.
MaxListed == 201

\* The categories of the account: two display categories, a reporting
\* category, and a category without a name.
ListedCategories ==
    << [id |-> 501, name |-> << "A" >> \o SEP \o << "P" >>],
       [id |-> 502, name |-> << "B" >> \o SEP \o << "P" >>],
       [id |-> 503, name |-> << "A" >>],
       [id |-> 504, name |-> << >>] >>

\* The k-th item of the account; the first `bare` items have no variation.
ListedItem(k, bare) ==
    [id |-> k,
     varId |-> IF k <= bare THEN 0 ELSE 1000 + k,
     categories |-> IF k % 5 = 0 THEN 504 ELSE 501 + (k % 2),
     reporting |-> IF k % 3 = 0 THEN 0 ELSE 503]

\* The counts the provider holds for the variation of the k-th item: none,
\* an IN_STOCK count, a SOLD count, or both.
ListedCounts(k) ==
    LET id == 1000 + k
    IN  CASE k % 4 = 0 -> {}
          [] k % 4 = 1 ->
               { [catalog_object_id |-> id, state |-> "IN_STOCK", quantity |-> Decimal(k % 3)] }
          [] k % 4 = 2 ->
               { [catalog_object_id |-> id, state |-> "SOLD", quantity |-> << "1" >>] }
          [] OTHER ->
               { [catalog_object_id |-> id, state |-> "IN_STOCK", quantity |-> << "2" >>],
                 [catalog_object_id |-> id, state |-> "SOLD", quantity |-> << "1" >>] }

\* An account of n items, served in pages of pageSize items and catPageSize
\* categories.
ReaderCatalog(n, bare, pageSize, catPageSize) ==
    [items |-> [ k \in 1..n |-> ListedItem(k, bare) ],
     cats |-> ListedCategories,
     counts |-> UNION { ListedCounts(k) : k \in (bare + 1)..n },
     pageSize |-> pageSize, catPageSize |-> catPageSize]

ListedSizes == { 0, 1, 2, 3, batchSize, batchSize + 1, 2 * batchSize, MaxListed }

ReaderCatalogs ==
    { ReaderCatalog(n, bare, pageSize, catPageSize) :
        n \in ListedSizes, bare \in { 0, 1 },
        pageSize \in { 2, batchSize }, catPageSize \in { 2, 4 } }

\* A page of a listing: the objects from the cursor on, and the cursor of the
\* next page, 0 on the last page.  The first request carries no cursor.
SqPage(objects, size, cursor) ==
    LET first == IF cursor = 0 THEN 1 ELSE cursor
        last == Min({ first + size - 1, Len(objects) })
    IN  [objects |-> SubSeq(objects, first, last),
         cursor |-> IF last < Len(objects) THEN last + 1 ELSE 0]

\* The listing of an account the upload handler has written to: its items by
\* id, each stock count as an IN_STOCK count, in pages of 100.
AsListed(s) ==
    IF "pageSize" \in DOMAIN s THEN s
    ELSE LET ids == SeqOfIds({ x.id : x \in s.items })
         IN  [items |-> [ k \in 1..Len(ids) |-> SqItem(s, ids[k]) ],
              cats |-> s.cats,
              counts |-> { [catalog_object_id |-> x.varId, state |-> "IN_STOCK",
                            quantity |-> Decimal(x.count)] : x \in s.items },
              pageSize |-> batchSize, catPageSize |-> batchSize]

\* GET /v2/catalog/list?types=ITEM
SqListItems(s, cursor) == SqPage(AsListed(s).items, AsListed(s).pageSize, cursor)

\* GET /v2/catalog/list?types=CATEGORY
SqListCategories(s, cursor) == SqPage(AsListed(s).cats, AsListed(s).catPageSize, cursor)

\* POST /v2/inventory/counts/batch-retrieve
SqRetrieveCounts(s, ids) ==
    { c \in AsListed(s).counts : \E k \in 1..Len(ids) : ids[k] = c.catalog_object_id }

\* The handler before a request.
ReaderOff == [pc |-> "off"]

\* A 500 answer of the handler.
ReaderFailed(st, success, message) ==
    [st EXCEPT !.pc = "done",
               !.res = [status |-> 500, success |-> success, error |-> message,
                        items |-> << >>, totalCount |-> 0, allCount |-> 0]]

\* GET /api/square-inventory: the credentials check and the locals of the try
\* block.
ReaderStart(artistName) ==
    LET st == [pc |-> "items", artistName |-> artistName,
               allItems |-> << >>, cursor |-> 0,
               categories |-> << >>, catCursor |-> 0,
               variationIds |-> << >>, i |-> 0, inventoryCounts |-> << >>,
               calls |-> << >>,
               res |-> [status |-> 0, success |-> FALSE, error |-> "",
                        items |-> << >>, totalCount |-> 0, allCount |-> 0]]
    IN  IF CredsMissing
        THEN ReaderFailed(st, FALSE, "Square credentials not configured")
        ELSE st

\* A client requests the inventory, with or without an artist name.
ReaderBegin ==
    /\ rd.pc = "off"
    /\ \E artistName \in { << >>, << "a" >> } : rd' = ReaderStart(artistName)
    /\ UNCHANGED << now, env, sq, up, api, faults, portal, kv, pure, peer >>

\* allItems.map(item => item.item_data?.variations?.[0]?.id).filter(id => id)
variationIds(allItems) ==
    LET withId == SelectSeq(allItems, LAMBDA item : item.varId # 0)
    IN  [ k \in 1..Len(withId) |-> withId[k].varId ]

\* categories[id], '' when the map has no entry.
ListedCategoryName(categories, id) ==
    IF id \in DOMAIN categories THEN categories[id] ELSE << >>

\* categoryName: from categories[0], else from reporting_category.
ListedItemCategory(categories, item) ==
    IF ListedCategoryName(categories, item.categories) # << >>
    THEN ListedCategoryName(categories, item.categories)
    ELSE ListedCategoryName(categories, item.reporting)

\* The record of an item: variationId ? (inventoryCounts[variationId] || 0) : 0
ListedRecord(item, categories, inventoryCounts) ==
    LET categoryName == ListedItemCategory(categories, item)
    IN  [id |-> item.id, squareId |-> item.id, variationId |-> item.varId,
         artistName |-> ArtistFromCategory(categoryName),
         category |-> categoryName, type |-> TypeFromCategory(categoryName),
         quantity |-> IF item.varId # 0 /\ item.varId \in DOMAIN inventoryCounts
                      THEN inventoryCounts[item.varId] ELSE 0,
         status |-> "live"]

\* The transform, the filter and the 200 answer.
ReaderRespond(st) ==
    LET items == [ k \in 1..Len(st.allItems) |->
                     ListedRecord(st.allItems[k], st.categories, st.inventoryCounts) ]
        filteredItems == FilterItems(items, st.artistName)
    IN  [st EXCEPT !.pc = "done",
                   !.res = [status |-> 200, success |-> TRUE, error |-> "",
                            items |-> filteredItems,
                            totalCount |-> Len(filteredItems),
                            allCount |-> Len(items)]]

concatKeepsLast(allItems, objects) == objects

\* allItems = allItems.concat(data.objects)
concat(allItems, objects) == allItems \o objects

\* One pass of the do-while loop over the item pages.
ListItems ==
    /\ rd.pc = "items"
    /\ \E o \in Open(Outcomes) :
        LET data == SqListItems(sq, rd.cursor)
            st == [rd EXCEPT !.calls = Append(@,
                      [call |-> "listItems", cursor |-> rd.cursor, out |-> o,
                       ids |-> << >>])]
        IN  /\ rd' = CASE o = "thr" -> ReaderFailed(st, FALSE, NETWORK)
                       [] o = "rej" -> ReaderFailed(st, FALSE, DETAIL)
                       [] OTHER ->
                            [st EXCEPT !.allItems = concat(@, data.objects),
                                       !.cursor = data.cursor,
                                       !.pc = IF data.cursor # 0 THEN "items" ELSE "cats"]
            /\ faults' = Counted(o)
    /\ UNCHANGED << now, env, sq, up, api, portal, kv, pure, peer >>

\* The handler after the category loop: the variation ids are collected, and
\* without any the answer is made.
AfterCategories(st) ==
    LET ids == variationIds(st.allItems)
    IN  IF Len(ids) > 0
        THEN [st EXCEPT !.variationIds = ids, !.i = 0, !.pc = "counts"]
        ELSE ReaderRespond([st EXCEPT !.variationIds = ids])

\* cat.category_data?.name || 'Unknown'
NameOrUnknown(name) == IF name = << >> THEN << "Unknown" >> ELSE name

\* One pass of the do-while loop over the category pages.  A non-OK answer
\* carries no objects and no cursor.
ListCategories ==
    /\ rd.pc = "cats"
    /\ \E o \in Open(Outcomes) :
        LET catData == SqListCategories(sq, rd.catCursor)
            st == [rd EXCEPT !.calls = Append(@,
                      [call |-> "listCategories", cursor |-> rd.catCursor, out |-> o,
                       ids |-> << >>])]
            page == [ id \in { catData.objects[k].id : k \in 1..Len(catData.objects) } |->
                        NameOrUnknown((CHOOSE c \in { catData.objects[k] :
                                                        k \in 1..Len(catData.objects) } :
                                         c.id = id).name) ]
        IN  /\ rd' = CASE o = "thr" -> ReaderFailed(st, FALSE, NETWORK)
                       [] o = "rej" -> AfterCategories([st EXCEPT !.catCursor = 0])
                       [] OTHER ->
                            IF catData.cursor # 0
                            THEN [st EXCEPT !.categories = page @@ @,
                                            !.catCursor = catData.cursor]
                            ELSE AfterCategories([st EXCEPT !.categories = page @@ @,
                                                            !.catCursor = 0])
            /\ faults' = Counted(o)
    /\ UNCHANGED << now, env, sq, up, api, portal, kv, pure, peer >>

\* parseInt(count.quantity) || 0
parseInt(quantity) == DigitsValue(quantity)

sliceOneMore(ids, from, to) == SubSeq(ids, from + 1, Min({ to + 1, Len(ids) }))

\* Array.prototype.slice(from, to)
slice(ids, from, to) == SubSeq(ids, from + 1, Min({ to, Len(ids) }))

AnyState(counts) == counts

\* if (count.state === 'IN_STOCK')
InStock(counts) == { c \in counts : c.state = "IN_STOCK" }

\* One pass of the for loop over the batches of variation ids.
RetrieveCounts ==
    /\ rd.pc = "counts"
    /\ \E o \in Open(Outcomes) :
        LET batch == slice(rd.variationIds, rd.i, rd.i + batchSize)
            counts == InStock(SqRetrieveCounts(sq, batch))
            found == [ id \in { c.catalog_object_id : c \in counts } |->
                         parseInt((CHOOSE c \in counts : c.catalog_object_id = id).quantity) ]
            st == [rd EXCEPT !.calls = Append(@,
                      [call |-> "retrieveCounts", cursor |-> 0, out |-> o, ids |-> batch]),
                             !.i = @ + batchSize]
            got == IF o = "ok" THEN [st EXCEPT !.inventoryCounts = found @@ @] ELSE st
        IN  /\ rd' = IF o = "thr" THEN ReaderFailed(st, FALSE, NETWORK)
                     ELSE IF got.i < Len(got.variationIds) THEN got
                     ELSE ReaderRespond(got)
            /\ faults' = Counted(o)
    /\ UNCHANGED << now, env, sq, up, api, portal, kv, pure, peer >>

InitReader ==
    /\ now = 0
    /\ env \in { {"SQUARE_ACCESS_TOKEN", "SQUARE_LOCATION_ID"},
                 {"SQUARE_ACCESS_TOKEN"}, {"SQUARE_LOCATION_ID"} }
    /\ sq \in ReaderCatalogs
    /\ up = [r \in Reqs |-> IdleReq]
    /\ api = [pc |-> "idle", batch |-> << >>]
    /\ faults = 0
    /\ portal = PortalOff(CHOOSE m \in Members : isAdmin(m))
    /\ kv = [set |-> FALSE, value |-> << >>]
    /\ pure = [pc |-> "off"]
    /\ rd = ReaderOff
    /\ peer = PeerOff

NextReader == ReaderBegin \/ ListItems \/ ListCategories \/ RetrieveCounts

SpecReader == InitReader /\ [][NextReader]_vars

\* ------------------- inventory update and delete handlers (part_001)

\* POST /api/square-update-inventory: the whole handler, with its one call.
UpdateInventory(r) ==
    /\ r = "api" /\ api.pc = "idle"
    /\ \E variationId \in { 0 } \cup { x.varId : x \in sq.items },
          quantity \in { [given |-> FALSE, n |-> 0], [given |-> TRUE, n |-> 0],
                         [given |-> TRUE, n |-> 3] },
          o \in Open(Outcomes) :
        LET st == [IdleReq EXCEPT !.ep = "update-inventory"]
            called == Call(st, "setCount", o, << >>, 0, 0)
        IN  IF CredsMissing \/ variationId = 0 \/ ~quantity.given
            THEN /\ o = "ok"
                 /\ up' = [up EXCEPT ![r] =
                             IF CredsMissing
                             THEN Respond(st, 500, FALSE, << >>,
                                          "Square credentials not configured")
                             ELSE IF variationId = 0
                             THEN Respond(st, 400, FALSE, << >>, "variationId is required")
                             ELSE Respond(st, 400, FALSE, << >>, "quantity is required")]
                 /\ UNCHANGED << sq, faults, peer >>
            ELSE /\ up' = [up EXCEPT ![r] =
                             CASE o = "ok" -> Respond(called, 200, TRUE, << >>, "")
                               [] o = "rej" -> Respond(called, 500, FALSE, << >>, DETAIL)
                               [] OTHER -> Caught(called, NETWORK)]
                 /\ sq' = IF o = "ok" THEN SqSetCount(sq, variationId, quantity.n) ELSE sq
                 /\ faults' = Counted(o)
    /\ api' = [pc |-> "sent", batch |-> << >>]
    /\ UNCHANGED << now, env, portal, kv, pure, rd, peer >>

\* POST /api/square-delete: the whole handler, with its one call.  Only the
\* access token is required.
DeleteItem(r) ==
    /\ r = "api" /\ api.pc = "idle"
    /\ \E itemId \in { 0 } \cup { x.id : x \in sq.items }, o \in Open(Outcomes) :
        LET st == [IdleReq EXCEPT !.ep = "delete"]
            called == Call(st, "delete", o, << >>, 0, 0)
        IN  IF "SQUARE_ACCESS_TOKEN" \notin env \/ itemId = 0
            THEN /\ o = "ok"
                 /\ up' = [up EXCEPT ![r] =
                             IF "SQUARE_ACCESS_TOKEN" \notin env
                             THEN Respond(st, 500, FALSE, << >>,
                                          "Square credentials not configured")
                             ELSE Respond(st, 400, FALSE, << >>, "Item ID is required")]
                 /\ UNCHANGED << sq, faults, peer >>
            ELSE /\ up' = [up EXCEPT ![r] =
                             CASE o = "ok" -> Respond(called, 200, TRUE, << >>, "")
                               [] o = "rej" -> Caught(called, DETAIL)
                               [] OTHER -> Caught(called, NETWORK)]
                 /\ sq' = IF o = "ok" THEN SqDelete(sq, itemId) ELSE sq
                 /\ faults' = Counted(o)
    /\ api' = [pc |-> "sent", batch |-> << >>]
    /\ UNCHANGED << now, env, portal, kv, pure, rd, peer >>

\* A client requests the inventory of all artists.
GetInventory(r) ==
    /\ r = "api" /\ api.pc = "idle"
    /\ rd' = ReaderStart(<< >>)
    /\ api' = [pc |-> "sent", batch |-> << >>]
    /\ UNCHANGED << now, env, sq, up, faults, portal, kv, pure, peer >>

\* One client, one request to one of the four handlers, under any
\* configuration of the two environment variables.
InitHandlers ==
    /\ now = 0
    /\ env \in SUBSET { "SQUARE_ACCESS_TOKEN", "SQUARE_LOCATION_ID" }
    /\ sq = SeededCatalog
    /\ up = [r \in Reqs |-> IdleReq]
    /\ api = [pc |-> "idle", batch |-> << >>]
    /\ faults = 0
    /\ portal = PortalOff(CHOOSE m \in Members : isAdmin(m))
    /\ kv = [set |-> FALSE, value |-> << >>]
    /\ pure = [pc |-> "off"]
    /\ rd = ReaderOff
    /\ peer = PeerOff

NextHandlers ==
    \/ \E r \in Reqs :
        \/ Submit(r)
        \/ UCatSearch(r) \/ UCatCreate(r) \/ UWrite(r)
        \/ CCatSearch(r) \/ CCatCreate(r) \/ CRepSearch(r) \/ CRepCreate(r)
        \/ CItem(r) \/ CInv(r)
        \/ UpdateInventory(r) \/ DeleteItem(r) \/ GetInventory(r)
    \/ ListItems \/ ListCategories \/ RetrieveCounts

SpecHandlers == InitHandlers /\ [][NextHandlers]_vars

\* ------------------------------------------- CREATE with a given quantity

\* The quantities of a record to create: numbers, as a restored item carries
\* them, and the strings of the portal's form.
CreateQuantities == { QNum(0), QNum(1), QNum(2), QStr(0), QStr(2) }

\* A client posts one record to create.
SubmitCreate(r) ==
    /\ r = "api" /\ api.pc = "idle"
    /\ \E a \in Artists, ty \in Types, q \in CreateQuantities, t \in Clock :
        LET b == << CreateRecord(1, a, ty, q) >>
        IN  /\ up' = [up EXCEPT ![r] =
                        HandlerBegin([IdleReq EXCEPT !.ep = "handler", !.items = b])]
            /\ api' = [pc |-> "sent", batch |-> b]
            /\ now' = t
    /\ UNCHANGED << env, sq, faults, portal, kv, pure, rd, peer >>

InitCreate ==
    /\ now = 0
    /\ env = {"SQUARE_ACCESS_TOKEN", "SQUARE_LOCATION_ID"}
    /\ sq \in { EmptyCatalog, SeededCatalog }
    /\ up = [r \in Reqs |-> IdleReq]
    /\ api = [pc |-> "idle", batch |-> << >>]
    /\ faults = 0
    /\ portal = PortalOff(CHOOSE m \in Members : isAdmin(m))
    /\ kv = [set |-> FALSE, value |-> << >>]
    /\ pure = [pc |-> "off"]
    /\ rd = ReaderOff
    /\ peer = PeerOff

NextCreate ==
    \E r \in Reqs :
        \/ SubmitCreate(r)
        \/ CCatSearch(r) \/ CCatCreate(r) \/ CRepSearch(r) \/ CRepCreate(r)
        \/ CItem(r) \/ CInv(r)

SpecCreate == InitCreate /\ [][NextCreate]_vars

\* --------------------------------------- two members edit the same item

\* The live item as both members read it from the inventory handler before
\* either of them saved an edit.
ReadCopy == fetchSquareInventory(SeededCatalog, << >>, "ok", "ok", "ok")[1]

\* The record a member submits: the copy read, with the form's fields.  The
\* two members enter different titles.
EditedBy(r, price) ==
    [UpdatedItem(ReadCopy, price) EXCEPT !.title = IF r = "api" THEN "T2" ELSE "T3"]

\* A member saves the edit: handleEditItem up to the handler's first call.
MemberEdit(r) ==
    /\ up[r].ep = "none"
    /\ \E price \in { "", "12.50" } :
        up' = [up EXCEPT ![r] =
                 HandlerBegin([IdleReq EXCEPT !.ep = "handler",
                                              !.items = << EditedBy(r, price) >>])]
    /\ UNCHANGED << now, env, sq, api, faults, portal, kv, pure, rd, peer >>

InitMembers ==
    /\ now = 0
    /\ env = {"SQUARE_ACCESS_TOKEN", "SQUARE_LOCATION_ID"}
    /\ sq = SeededCatalog
    /\ up = [r \in Reqs |-> IdleReq]
    /\ api = [pc |-> "idle", batch |-> << >>]
    /\ faults = 0
    /\ portal = PortalOff(CHOOSE m \in Members : isAdmin(m))
    /\ kv = [set |-> FALSE, value |-> << >>]
    /\ pure = [pc |-> "off"]
    /\ rd = ReaderOff
    /\ peer = PeerOff

\* The two requests run side by side, their provider calls interleaved.
NextMembers ==
    \E r \in Reqs : MemberEdit(r) \/ UCatSearch(r) \/ UCatCreate(r) \/ UWrite(r)

SpecMembers == InitMembers /\ [][NextMembers]_vars

\* ------------------------ two clients create under the same category name

\* The record a client posts: its own local id, the one artist and type.
WriterRecord(r) ==
    CreateRecord(IF r = "api" THEN 1 ELSE 2, CHOOSE a \in Artists : TRUE,
                 CHOOSE t \in Types : TRUE, QStr(1))

\* A client posts one record to create; the request reaches the handler.
WriterSubmit(r) ==
    /\ up[r].ep = "none"
    /\ \E t \in Clock :
        /\ up' = [up EXCEPT ![r] =
                    HandlerBegin([IdleReq EXCEPT !.ep = "handler",
                                                 !.items = << WriterRecord(r) >>])]
        /\ now' = t
    /\ UNCHANGED << env, sq, api, faults, portal, kv, pure, rd, peer >>

InitWriters ==
    /\ now = 0
    /\ env = {"SQUARE_ACCESS_TOKEN", "SQUARE_LOCATION_ID"}
    /\ sq \in { EmptyCatalog, SeededCatalog }
    /\ up = [r \in Reqs |-> IdleReq]
    /\ api = [pc |-> "idle", batch |-> << >>]
    /\ faults = 0
    /\ portal = PortalOff(CHOOSE m \in Members : isAdmin(m))
    /\ kv = [set |-> FALSE, value |-> << >>]
    /\ pure = [pc |-> "off"]
    /\ rd = [pc |-> "off"]
    /\ peer = PeerOff

\* The two requests run side by side, their provider calls interleaved.
NextWriters ==
    \E r \in Reqs :
        \/ WriterSubmit(r)
        \/ CCatSearch(r) \/ CCatCreate(r) \/ CRepSearch(r) \/ CRepCreate(r)
        \/ CItem(r) \/ CInv(r)

SpecWriters == InitWriters /\ [][NextWriters]_vars

\* ------------------------------ two portals over the one archive entry

\* A provider account with two live items of the same artist and type.
TwoItemCatalog ==
    LET one == SqItem(SeededCatalog, (CHOOSE x \in SeededCatalog.items : TRUE).id)
        it == SqCreateItem(SeededCatalog,
                           [kind |-> "item", name |-> << >>, id |-> 9, at |-> 0 - 1],
                           [name |-> "T4", categories |-> one.categories,
                            reporting |-> one.reporting, origin |-> 9])
    IN  SqSetCount(it.sq, it.varId, 1)

\* The archive entry as an earlier session left it: one record of an item
\* that was archived, and deleted upstream, before.
EarlierArchive ==
    << ArchivedItem([ReadCopy EXCEPT !.id = 90, !.squareId = 90, !.variationId = 91,
                                     !.title = "T0"],
                    CHOOSE m \in Members : isAdmin(m), 0 - 1) >>

\* useEffect on mount, in the second browser.
PeerMount ==
    /\ peer.pc = "mount"
    /\ \E oi, oc, ov, og \in Outcomes :
        /\ Within(<< oi, oc, ov, og >>)
        /\ faults' = faults + Fails(<< oi, oc, ov, og >>)
        /\ peer' = [peer EXCEPT
               !.pc = "idle",
               !.inventory = loadInventory(sq, peer.member, oi, oc, ov),
               !.archive = IF kvGet(og) # << >> THEN kvGet(og) ELSE @]
    /\ UNCHANGED << now, env, sq, up, api, portal, kv, pure, rd >>

\* handleArchive in the second browser, on the item at position k of the
\* inventory it shows.
PeerArchive(k) ==
    /\ peer.pc = "idle" /\ peer.ops < MaxOps
    /\ k \in 1..Len(peer.inventory)
    /\ \E od, os, oi, oc, ov \in Outcomes :
        LET item == peer.inventory[k]
            outs == << od, os, oi, oc, ov >>
            success == deleteFromSquare(sq, item.squareId, od)
            newArchive == Append(peer.archive, ArchivedItem(item, peer.member, now + 1))
            sq1 == IF success THEN SqDelete(sq, item.squareId) ELSE sq
        IN  /\ Within(outs)
            /\ ~success => os = "ok" /\ oi = "ok" /\ oc = "ok" /\ ov = "ok"
            /\ faults' = faults + Fails(outs)
            /\ sq' = sq1
            /\ kv' = IF success THEN kvSet(newArchive, os) ELSE kv
            /\ peer' = [peer EXCEPT
                   !.ops = @ + 1,
                   !.archive = IF success THEN newArchive ELSE @,
                   !.inventory = IF success
                                 THEN loadInventory(sq1, peer.member, oi, oc, ov)
                                 ELSE @,
                   !.last = [op |-> "archive", ok |-> success,
                             squareId |-> item.squareId, local |-> 0]]
    /\ now' = now + 1
    /\ UNCHANGED << env, up, api, portal, pure, rd >>

\* Two browsers are opened on an account with two live items; the archive
\* entry is missing or holds a record of an earlier session.
InitArchive ==
    /\ now = 0
    /\ env = {"SQUARE_ACCESS_TOKEN", "SQUARE_LOCATION_ID"}
    /\ sq = TwoItemCatalog
    /\ up = [r \in Reqs |-> IdleReq]
    /\ api = [pc |-> "idle", batch |-> << >>]
    /\ faults = 0
    /\ \E m \in Members : portal = [PortalOff(m) EXCEPT !.pc = "mount"]
    /\ peer = [PeerOff EXCEPT !.pc = "mount"]
    /\ kv \in { [set |-> FALSE, value |-> << >>], [set |-> TRUE, value |-> EarlierArchive] }
    /\ pure = [pc |-> "off"]
    /\ rd = [pc |-> "off"]

NextArchive ==
    \/ Mount \/ PeerMount
    \/ \E k \in 1..MaxOps : handleArchive(k) \/ PeerArchive(k)

SpecArchive == InitArchive /\ [][NextArchive]_vars

\* One browser is opened on the account; the archive entry is missing or holds
\* a record of an earlier session.
InitReload ==
    /\ now = 0
    /\ env = {"SQUARE_ACCESS_TOKEN", "SQUARE_LOCATION_ID"}
    /\ sq = TwoItemCatalog
    /\ up = [r \in Reqs |-> IdleReq]
    /\ api = [pc |-> "idle", batch |-> << >>]
    /\ faults = 0
    /\ \E m \in Members : portal = [PortalOff(m) EXCEPT !.pc = "mount"]
    /\ peer = PeerOff
    /\ kv \in { [set |-> FALSE, value |-> << >>], [set |-> TRUE, value |-> EarlierArchive] }
    /\ pure = [pc |-> "off"]
    /\ rd = [pc |-> "off"]

NextReload ==
    \/ Mount
    \/ \E k \in 1..MaxOps : handleArchive(k) \/ handleRestore(k)
    \/ handleRestoreDone
    \/ \E r \in Reqs :
        \/ CCatSearch(r) \/ CCatCreate(r) \/ CRepSearch(r) \/ CRepCreate(r)
        \/ CItem(r) \/ CInv(r)

SpecReload == InitReload /\ [][NextReload]_vars

\* ------------------------------------------- read, edit, write of an item

DecimalDigits == { "0", "1", "2", "3", "4", "5", "6", "7", "8", "9" }

\* The first position from i on that holds no character of the class.
Past(s, i, class) == Min({ j \in i..(Len(s) + 1) : j > Len(s) \/ s[j] \notin class })

\* /(\d+\.?\d*)\s*["']\s*x\s*(\d+\.?\d*)/i tried at position i, over texts
\* without a decimal point: a run of digits, blanks, a quote, blanks, an x,
\* blanks, a run of digits.
HwMatchAt(s, i) ==
    LET a == Past(s, i, DecimalDigits)
        b == Past(s, a, { " " })
        c == Past(s, b + 1, { " " })
        d == Past(s, c + 1, { " " })
        e == Past(s, d, DecimalDigits)
        ok == /\ a > i
              /\ b <= Len(s) /\ s[b] \in { "\"", "'" }
              /\ c <= Len(s) /\ s[c] \in { "x", "X" }
              /\ e > d
    IN  IF ok
        THEN [ok |-> TRUE, height |-> SubSeq(s, i, a - 1), width |-> SubSeq(s, d, e - 1)]
        ELSE [ok |-> FALSE, height |-> << >>, width |-> << >>]

\* dimensions.match(..): height and width of the leftmost match, '' and ''
\* without one.
HeightWidth(dimensions) ==
    LET at == { i \in 1..Len(dimensions) : HwMatchAt(dimensions, i).ok }
    IN  IF at = {} THEN [height |-> << >>, width |-> << >>]
        ELSE [height |-> HwMatchAt(dimensions, Min(at)).height,
              width |-> HwMatchAt(dimensions, Min(at)).width]

\* The fields the reader returns for an item's description.
ReadDescription(description) ==
    LET out == DecodeDescription(description)
    IN  [medium |-> out.medium, description |-> out.description,
         dimensions |-> out.dimensions,
         height |-> HeightWidth(out.dimensions).height,
         width |-> HeightWidth(out.dimensions).width]

\* startEdit and handleEditItem: { ...editingItem, ...formData, dimensions }
\* with the form's fields as startEdit copied them.  The record read has no
\* discounts field, so neither has the record sent.
EditedRecord(item) ==
    [medium |-> item.medium, description |-> item.description,
     height |-> item.height, width |-> item.width,
     dimensions |-> item.height \o << "\"", " ", "x", " " >> \o item.width \o << "\"" >>,
     discounts |-> << >>]

InchesByInches == << "8", "\"", " ", "x", " ", "9", "\"" >>

\* The records whose descriptions stand upstream when the item is read.
StoredRecords ==
    [description : Texts({ "a", "\n" }, 1),
     medium : { << >>, << "m" >> },
     dimensions : { << >>, InchesByInches, << "8", " ", "x", " ", "9" >>, << "d" >> },
     height : { << >> },
     width : { << >> },
     discounts : { << >>, << "c" >> }]

InitEdit ==
    /\ AtRest
    /\ \E item \in StoredRecords :
         pure = [pc |-> "stored", before |-> EncodeDescription(item)]

\* The inventory handler returns the item.
ReadItem ==
    /\ pure.pc = "stored"
    /\ pure' = [pc |-> "read", before |-> pure.before,
                item |-> ReadDescription(pure.before)]
    /\ UNCHANGED << now, env, sq, up, api, faults, portal, kv, rd, peer >>

\* The member opens the edit form and saves with a new title only.
SaveEdit ==
    /\ pure.pc = "read"
    /\ pure' = [pc |-> "sent", before |-> pure.before,
                item |-> EditedRecord(pure.item)]
    /\ UNCHANGED << now, env, sq, up, api, faults, portal, kv, rd, peer >>

\* The upload handler builds the description of the UPDATE.
WriteEdit ==
    /\ pure.pc = "sent"
    /\ pure' = [pc |-> "rewritten", before |-> pure.before,
                after |-> EncodeDescription(pure.item)]
    /\ UNCHANGED << now, env, sq, up, api, faults, portal, kv, rd, peer >>

NextEdit == ReadItem \/ SaveEdit \/ WriteEdit

SpecEdit == InitEdit /\ [][NextEdit]_vars

\* ---------------------------------------- SKUs of two records of an artist

\* Two records to create for one artist, in one batch or in two: the clock
\* reads at1 when the handler reaches the first and at2, not earlier, when a
\* handler reaches the second.
InitSkuPair ==
    /\ AtRest
    /\ \E name \in SkuNames, t1 \in SkuTimes, t2 \in SkuTimes :
         /\ t1 <= t2
         /\ pure = [pc |-> "records", artistName |-> name, at1 |-> t1, at2 |-> t2]

\* The handler assembles the SKU of the first record.
SkuFirst ==
    /\ pure.pc = "records"
    /\ pure' = [pc |-> "first", artistName |-> pure.artistName,
                at1 |-> pure.at1, at2 |-> pure.at2,
                sku1 |-> getInitials(pure.artistName) \o getSkuNumber(pure.at1)]
    /\ UNCHANGED << now, env, sq, up, api, faults, portal, kv, rd, peer >>

\* A handler assembles the SKU of the second record.
SkuSecond ==
    /\ pure.pc = "first"
    /\ pure' = [pc |-> "both", artistName |-> pure.artistName,
                at1 |-> pure.at1, at2 |-> pure.at2, sku1 |-> pure.sku1,
                sku2 |-> getInitials(pure.artistName) \o getSkuNumber(pure.at2)]
    /\ UNCHANGED << now, env, sq, up, api, faults, portal, kv, rd, peer >>

NextSkuPair == SkuFirst \/ SkuSecond

SpecSkuPair == InitSkuPair /\ [][NextSkuPair]_vars

\* ------------------------------------------ members and their inventories

\* The account after one artwork of an artist was created: the artist's
\* display and reporting categories, found or made, and the item.
WithArtwork(s, a, id) ==
    LET t == CHOOSE x \in Types : TRUE
        k(kind, name) == [kind |-> kind, name |-> name, id |-> id, at |-> 0 - 1]
        c1 == IF SqSearch(s, a \o SEP \o t) # 0
              THEN [sq |-> s, id |-> SqSearch(s, a \o SEP \o t)]
              ELSE SqCreateCategory(s, k("cat", a \o SEP \o t), a \o SEP \o t)
        c2 == IF SqSearch(c1.sq, a) # 0
              THEN [sq |-> c1.sq, id |-> SqSearch(c1.sq, a)]
              ELSE SqCreateCategory(c1.sq, k("repcat", a), a)
        it == SqCreateItem(c2.sq, k("item", << >>),
                           [name |-> "T1", categories |-> c1.id, reporting |-> c2.id,
                            origin |-> id])
    IN  SqSetCount(it.sq, it.varId, 1)

\* The account with one artwork of each artist of a list.
RECURSIVE Gallery(_)
Gallery(artists) ==
    IF artists = << >> THEN EmptyCatalog
    ELSE WithArtwork(Gallery(SubSeq(artists, 1, Len(artists) - 1)),
                     artists[Len(artists)], Len(artists))

\* The artists with artworks in the gallery.
GalleryArtists == { << "J" >>, << "J", "a" >>, << "D" >> }

\* The full names of members: an artist's name, as written or in another
\* case and with a blank, and the empty name.
MemberNames == GalleryArtists \cup { << >>, << "j", "a", " " >> }

InitIsolation ==
    /\ now = 0
    /\ env = {"SQUARE_ACCESS_TOKEN", "SQUARE_LOCATION_ID"}
    /\ \E a, b \in GalleryArtists : sq = Gallery(IF a = b THEN << a >> ELSE << a, b >>)
    /\ up = [r \in Reqs |-> IdleReq]
    /\ api = [pc |-> "idle", batch |-> << >>]
    /\ faults = 0
    /\ \E name \in MemberNames, role \in { "artist", "admin", "it" } :
         portal = [PortalOff([full_name |-> name, role |-> role]) EXCEPT !.pc = "mount"]
    /\ kv = [set |-> FALSE, value |-> << >>]
    /\ pure = [pc |-> "off"]
    /\ rd = [pc |-> "off"]
    /\ peer = PeerOff

NextIsolation == Mount

SpecIsolation == InitIsolation /\ [][NextIsolation]_vars

\* ------------------------------------------------ properties: batch upload

\* The positions in the request's history of the calls named c made for the
\* record at batch position i.
CallsAt(st, c, i) ==
    { k \in 1..Len(st.calls) : st.calls[k].call = c /\ st.calls[k].i = i }

Threw(st) == \E k \in 1..Len(st.calls) : st.calls[k].out = "thr"

Rejected(st, c, i) ==
    \E k \in CallsAt(st, c, i) : st.calls[k].out \in { "rej", "rejbare" }

RejectedBare(st, c, i) ==
    \E k \in CallsAt(st, c, i) : st.calls[k].out = "rejbare"

Processed(st, i) ==
    \E k \in 1..Len(st.calls) : st.calls[k].i = i

\* An answered batch of the export-default handler, credentials configured.
Answered(st) == st.ep = "handler" /\ st.pc = "done" /\ ~CredsMissing

\* C1: in an answered batch in which no item write of a CREATE record was
\* rejected (and no call failed at the network), the response has status 200 and
\* one result per record in input order; the result of an UPDATE record the
\* provider rejected has success false and the provider's first error detail,
\* or 'Failed to update' when there is none; every other result has success
\* true; and every record, also one after a rejected UPDATE, was processed.
C1_RejectedUpdatesAreIsolated ==
    \A r \in Reqs :
        LET st == up[r]
        IN  ( /\ Answered(st) /\ ~Threw(st)
              /\ \A i \in 1..Len(st.items) : ~Rejected(st, "createItem", i) )
            => /\ st.res.status = 200 /\ st.res.success
               /\ Len(st.res.results) = Len(st.items)
               /\ \A i \in 1..Len(st.items) :
                    LET item == st.items[i]
                        e == st.res.results[i]
                    IN  /\ e.originalId = item.id
                        /\ Processed(st, i)
                        /\ IF Rejected(st, "updateItem", i)
                           THEN /\ ~e.success
                                /\ e.error = IF RejectedBare(st, "updateItem", i)
                                             THEN "Failed to update" ELSE DETAIL
                           ELSE e.success /\ e.error = ""

\* C1's case: a two-record batch whose first record is an UPDATE the provider
\* rejected without an error detail, answered with a failure entry for it and a
\* success entry for the record after it.
C1_Witness ==
    \E r \in Reqs :
        LET st == up[r]
        IN  /\ Answered(st) /\ ~Threw(st) /\ Len(st.items) = 2
            /\ RejectedBare(st, "updateItem", 1)
            /\ ~Rejected(st, "createItem", 2) /\ ~Rejected(st, "updateItem", 2)
            /\ Len(st.res.results) = 2
            /\ ~st.res.results[1].success /\ st.res.results[2].success

\* C2: in an answered batch, a CREATE record whose item write the provider
\* rejected has a result entry with success false and an error, and every
\* record after it was processed.
C2_RejectedCreateIsIsolated ==
    \A r \in Reqs :
        LET st == up[r]
        IN  (Answered(st) /\ ~Threw(st))
            => \A i \in 1..Len(st.items) :
                 Rejected(st, "createItem", i)
                 => /\ Len(st.res.results) >= i
                    /\ ~st.res.results[i].success
                    /\ st.res.results[i].error # ""
                    /\ \A j \in (i + 1)..Len(st.items) : Processed(st, j)

\* C3: when an answered batch stopped at record k, before the end of the loop,
\* the response carries the results of the records 1..k-1 that had completed.
C3_PartialResultsAreReturned ==
    \A r \in Reqs :
        LET st == up[r]
        IN  (Answered(st) /\ st.i <= Len(st.items))
            => /\ Len(st.res.results) = st.i - 1
               /\ \A j \in 1..(st.i - 1) : st.res.results[j] = st.results[j]

\* The calls that write a record's item.
ItemWrites(st, i) == CallsAt(st, "createItem", i) \cup CallsAt(st, "updateItem", i)

InventoryCalls(st, i) ==
    CallsAt(st, "setInventory", i) \cup CallsAt(st, "adjustInventory", i)

\* Nothing but inventory calls failed while the batch was processed.
OnlyInventoryFailed(st) ==
    \A k \in 1..Len(st.calls) :
        st.calls[k].out # "ok" => st.calls[k].call \in { "setInventory", "adjustInventory" }

\* C4: in an answered batch in which only inventory calls failed, a CREATE
\* record whose inventory call failed, by a non-OK answer or a thrown error,
\* has a result with success true and its item id and variation id, and every
\* record after it was processed.
C4_InventoryFailureIsSwallowed ==
    \A r \in Reqs :
        LET st == up[r]
        IN  (st.pc = "done" /\ ~CredsMissing /\ OnlyInventoryFailed(st))
            => \A i \in 1..Len(st.items) :
                 (\E k \in InventoryCalls(st, i) : st.calls[k].out # "ok")
                 => /\ Len(st.res.results) >= i
                    /\ st.res.results[i].success
                    /\ st.res.results[i].squareId # 0
                    /\ st.res.results[i].variationId # 0
                    /\ \A j \in (i + 1)..Len(st.items) : Processed(st, j)

\* C5: in an answered batch without a thrown error, a record for which the
\* create request of a category was rejected still has its item write issued,
\* without the display category when that one failed and without the
\* reporting category when that one failed.
C5_CategoryFailureIsTolerated ==
    \A r \in Reqs :
        LET st == up[r]
        IN  (st.pc = "done" /\ ~CredsMissing /\ ~Threw(st))
            => \A i \in 1..Len(st.items) :
                 \A k \in CallsAt(st, "createCategory", i) :
                    st.calls[k].out \in { "rej", "rejbare" }
                    => \E m \in ItemWrites(st, i) :
                         /\ st.calls[k].name = CategoryNameOf(st.items[i])
                                => st.calls[m].cat = 0
                         /\ st.calls[k].name = st.items[i].artistName
                                => st.calls[m].rep = 0

\* The create-category requests of a request for the name n.
CategoryCreates(st, n) ==
    { k \in 1..Len(st.calls) : st.calls[k].call = "createCategory" /\ st.calls[k].name = n }

\* C6: while a batch is processed without a thrown error, for a category name
\* that did not exist when the batch began and whose create requests were all
\* accepted, at most one create request was issued, and all item writes of the
\* records with that display name carry one category id, and all item writes
\* of the records with that artist name carry one reporting category id.
C6_OneCreatePerCategoryName ==
    \A r \in Reqs :
        LET st == up[r]
            names == { st.calls[k].name : k \in 1..Len(st.calls) } \ { << >> }
            writes == UNION { ItemWrites(st, i) : i \in 1..Len(st.items) }
        IN  ~Threw(st)
            => \A n \in names \ st.startNames :
                 (\A k \in CategoryCreates(st, n) : st.calls[k].out = "ok")
                 => /\ Cardinality(CategoryCreates(st, n)) <= 1
                    /\ \A m1, m2 \in writes :
                         /\ ( /\ CategoryNameOf(st.items[st.calls[m1].i]) = n
                              /\ CategoryNameOf(st.items[st.calls[m2].i]) = n )
                            => st.calls[m1].cat = st.calls[m2].cat
                         /\ ( /\ st.items[st.calls[m1].i].artistName = n
                              /\ st.items[st.calls[m2].i].artistName = n )
                            => st.calls[m1].rep = st.calls[m2].rep

\* C7: posting a batch again does not produce a second item for a local id:
\* the provider holds at most one item per local id, whether or not the client
\* retried.
C7_CreateIsIdempotentOnRetry ==
    \A x, y \in sq.items : x.origin = y.origin => x = y

\* ----------------------------------------------- properties: the portal

\* listInventory(): what the reader returns with no filter when its calls
\* succeed.
Listed == ListInventory(sq, << >>, TRUE, TRUE)

InSeq(items, squareId) == \E k \in 1..Len(items) : items[k].squareId = squareId

NoLabelLine(s) ==
    \A i \in 1..Len(s) :
        (i = 1 \/ s[i - 1] = "\n")
        => s[i] \notin Labels("Medium:") \cup Labels("Dimensions:") \cup Labels("Discounts:")

\* record.discounts of a decoded record, '' when the record has no such field
DiscountsOf(record) == IF "discounts" \in DOMAIN record THEN record.discounts ELSE << >>

\* C9: for a record whose description has no line beginning with a label,
\* decoding the description the writer built gives back the record's medium,
\* its dimensions text and its discounts, and a description equal to the
\* record's description trimmed.
C9_DescriptionRoundTrip ==
    (pure.pc = "decoded" /\ NoLabelLine(pure.item.description))
    => /\ pure.out.medium = pure.item.medium
       /\ pure.out.dimensions = DimensionsOf(pure.item)
       /\ DiscountsOf(pure.out) = pure.item.discounts
       /\ pure.out.description = Trim(pure.item.description)

\* ------------------------------------------------ properties: the filter

Range(f) == { f[k] : k \in DOMAIN f }

\* p is what s begins with.
IsPrefix(p, s) == \E k \in 0..Len(s) : SubSeq(s, 1, k) = p

\* The items of a sequence, as the set of their ids.
Ids(items) == { items[k].squareId : k \in 1..Len(items) }

SplitAtLast(c, out) ==
    IF \E i \in 1..(Len(c) - 2) : SubSeq(c, i, i + 2) = SEP
    THEN /\ out.artistName \o SEP \o out.type = c
         /\ \A i \in (Len(out.artistName) + 2)..(Len(c) - 2) : SubSeq(c, i, i + 2) # SEP
    ELSE out.artistName = c /\ out.type = << >>

\* The split recovered the artist name and the type the writer joined.
Recovered == pure.out.artistName = pure.artistName /\ pure.out.type = pure.type

\* C11 (as stated): a category name is split at its last ' - ' (a name
\* without one is the artist name, with type ''), and for every artist name
\* and every type that does not contain ' - ' the split of the writer's
\* '{artist} - {type}' recovers exactly (artist, type).
C11_SplitRecoversArtistAndType ==
    pure.pc = "split" =>
        /\ SplitAtLast(pure.category, pure.out)
        /\ (pure.written /\ ~Includes(pure.type, SEP)) => Recovered

\* C11 (amended): the same, for every type that neither contains ' - ' nor
\* begins with '- ': after the separator's blank a leading '- ' of the type
\* is itself a ' - ', and it is the last one.
C11_SplitRecoversUnlessTypeOpensWithDash ==
    pure.pc = "split" =>
        /\ SplitAtLast(pure.category, pure.out)
        /\ (/\ pure.written
            /\ ~Includes(pure.type, SEP)
            /\ ~StartsWith(pure.type, << "-", " " >>)) => Recovered

\* An artist name that itself holds ' - ' is recovered from the written name.
C11_Witness ==
    /\ pure.pc = "split"
    /\ pure.written
    /\ Includes(pure.artistName, SEP)
    /\ pure.type = << "A" >>
    /\ pure.out = [artistName |-> pure.artistName, type |-> pure.type]

\* -------------------------------------------- properties: SKU generation

\* The upper-cased first characters of the non-empty tokens of a name: the
\* characters that are no break and follow a break or open the name.
RECURSIVE TokenInitials(_, _)
TokenInitials(name, i) ==
    IF i > Len(name) THEN << >>
    ELSE (IF ~IsWordBreak(name[i]) /\ (i = 1 \/ IsWordBreak(name[i - 1]))
          THEN << UpperChar(name[i]) >> ELSE << >>) \o TokenInitials(name, i + 1)

\* The initials as the claim derives them from a name.
InitialsOf(name) ==
    LET firsts == TokenInitials(name, 1)
    IN  IF Len(firsts) < 2
        THEN ToUpperCase(SubSeq(name, 1, Min({ 3, Len(name) })))
        ELSE SubSeq(firsts, 1, Min({ 4, Len(firsts) }))

\* The SKU is the initials and a suffix of four characters, at most 4 + 4 long.
SkuShape ==
    /\ pure.sku = pure.initials \o pure.skuNum
    /\ Len(pure.skuNum) = 4
    /\ Len(pure.sku) <= 4 + 4
    /\ pure.artistName = JoanFindleyPerls => SubSeq(pure.sku, 1, 3) = << "J", "F", "P" >>
    /\ pure.artistName = << "X" >> => pure.initials = << "X" >>

\* C12 (as stated): on CREATE the initials are the upper-cased first
\* characters of the non-empty tokens of the artist name, at most 4 of them,
\* or the upper-cased first 3 characters of the name when fewer than 2
\* result; the SKU is the initials followed by a 4-character suffix and is
\* never longer than 4 + 4.
C12_SkuFromInitials ==
    pure.pc = "sku" => (pure.initials = InitialsOf(pure.artistName) /\ SkuShape)

\* C12 (amended): the same for a record with an artist name; for a record
\* without one the initials are 'XXX'.
C12_SkuFromInitialsOrXXX ==
    pure.pc = "sku" =>
        /\ pure.artistName # << >> => pure.initials = InitialsOf(pure.artistName)
        /\ pure.artistName = << >> => pure.initials = << "X", "X", "X" >>
        /\ SkuShape

\* A name of five tokens gets four initials and a SKU of 4 + 4 characters.
C12_Witness ==
    /\ pure.pc = "sku"
    /\ pure.artistName = << "a", " ", "b", " ", "c", " ", "d", " ", "e" >>
    /\ pure.initials = << "A", "B", "C", "D" >>
    /\ pure.sku = << "A", "B", "C", "D", "1", "2", "3", "4" >>

\* ------------------------------------------------- properties: price

\* The value of a decimal text in cents; the text has at most two decimals.
CentsOf(s) ==
    LET dots == { i \in 1..Len(s) : s[i] = "." }
        whole == IF dots = {} THEN s ELSE SubSeq(s, 1, Min(dots) - 1)
        frac == IF dots = {} THEN << >> ELSE SubSeq(s, Min(dots) + 1, Len(s))
    IN  100 * DigitsValue(whole)
          + (IF Len(frac) = 0 THEN 0
             ELSE IF Len(frac) = 1 THEN 10 * DigitValue(frac[1])
             ELSE 10 * DigitValue(frac[1]) + DigitValue(frac[2]))

\* The text has exactly two decimals.
TwoDecimals(s) == Len(s) >= 4 /\ s[Len(s) - 2] = "." /\ \A i \in 1..Len(s) : i # Len(s) - 2 => s[i] # "."

\* C13: the writer sends round(price * 100) as the amount (12.5 gives 1250),
\* the reader renders amount / 100 with exactly two decimals (1250 gives
\* '12.50'), a written price of at most two decimals reads back with the
\* same value, and an item without price data reads as '0.00'.
C13_PriceRoundTrip ==
    /\ (pure.pc \in { "written", "read" } /\ pure.variationData.price_money) =>
          /\ pure.variationData.amount = CentsOf(pure.price)
          /\ pure.price = << "1", "2", ".", "5" >> => pure.variationData.amount = 1250
    /\ pure.pc = "read" =>
          IF pure.variationData.price_money
          THEN /\ TwoDecimals(pure.out)
               /\ CentsOf(pure.out) = CentsOf(pure.price)
               /\ pure.variationData.amount = 1250 => pure.out = << "1", "2", ".", "5", "0" >>
          ELSE pure.out = << "0", ".", "0", "0" >>

\* A price whose product with 100 is not exact in binary reads back unchanged.
C13_Witness ==
    /\ pure.pc = "read"
    /\ pure.price = << "0", ".", "5", "7" >>
    /\ Times100(parseFloat(pure.price)) # FloatOf(57, 1)
    /\ pure.variationData.amount = 57
    /\ pure.out = pure.price

\* ------------------------------------------ properties: inventory reader

\* The requests of one kind the handler has made, in order.
ReaderCalls(kind) == SelectSeq(rd.calls, LAMBDA c : c.call = kind)

\* The item loop has ended without a failure.
ItemsListed ==
    rd.pc \in { "cats", "counts" } \/ (rd.pc = "done" /\ rd.res.status = 200)

\* The pages the provider serves its items in: N pages of pageSize items, the
\* last one shorter; an account without items answers with one empty page.
PageCount == IF Len(sq.items) = 0 THEN 1
             ELSE (Len(sq.items) + sq.pageSize - 1) \div sq.pageSize

PageAt(k) ==
    SubSeq(sq.items, (k - 1) * sq.pageSize + 1, Min({ k * sq.pageSize, Len(sq.items) }))

\* The cursor the provider returns with page k, 0 with the last page.
CursorAfter(k) == IF k < PageCount THEN k * sq.pageSize + 1 ELSE 0

RECURSIVE PagesUpTo(_)
PagesUpTo(k) == IF k = 0 THEN << >> ELSE PagesUpTo(k - 1) \o PageAt(k)

\* C14: for a catalog served as N pages the handler issues exactly N list
\* requests, the first without a cursor and each later one with the cursor
\* the previous answer returned, stops at the first answer without a cursor,
\* and has accumulated the N pages in order, no item dropped or duplicated.
C14_ListingFollowsCursor ==
    ItemsListed =>
        LET calls == ReaderCalls("listItems")
        IN  /\ Len(calls) = PageCount
            /\ calls[1].cursor = 0
            /\ \A k \in 2..Len(calls) :
                   calls[k].cursor = CursorAfter(k - 1) /\ calls[k].cursor # 0
            /\ CursorAfter(Len(calls)) = 0
            /\ rd.allItems = PagesUpTo(PageCount)
            /\ rd.allItems = sq.items
            /\ rd.pc = "done" => rd.res.allCount = Len(sq.items)

\* An account of 201 items in pages of 100 is listed by three requests.
C14_Witness ==
    /\ rd.pc = "done"
    /\ rd.res.status = 200
    /\ Len(sq.items) = 2 * batchSize + 1
    /\ sq.pageSize = batchSize
    /\ Len(ReaderCalls("listItems")) = 3
    /\ rd.res.allCount = 2 * batchSize + 1

\* C15: when a page request of the item listing or of the category listing
\* gets a non-OK answer, the handler answers with an error and success:false,
\* and never with a catalog built from a partial item list or category map.
C15_ListFailureIsFatal ==
    (/\ rd.pc = "done"
     /\ \E k \in 1..Len(rd.calls) :
          rd.calls[k].call \in { "listItems", "listCategories" } /\ rd.calls[k].out = "rej")
        => (rd.res.status = 500 /\ ~rd.res.success)

\* The variation ids present across the items of the account, in order.
RECURSIVE CollectedIds(_)
CollectedIds(items) ==
    IF items = << >> THEN << >>
    ELSE (IF Head(items).varId # 0 THEN << Head(items).varId >> ELSE << >>)
         \o CollectedIds(Tail(items))

RECURSIVE Batched(_)
Batched(calls) ==
    IF calls = << >> THEN << >> ELSE Head(calls).ids \o Batched(Tail(calls))

\* C16: the count requests cover the variation ids of the listed items in
\* batches: every batch holds at most 100 ids, every collected id is in
\* exactly one batch, and ceil(n / 100) requests are made for n ids, none
\* for n = 0.
C16_CountBatches ==
    (rd.pc = "done" /\ rd.res.status = 200) =>
        LET calls == ReaderCalls("retrieveCounts")
            ids == CollectedIds(sq.items)
        IN  /\ \A k \in 1..Len(calls) : Len(calls[k].ids) <= 100
            /\ Batched(calls) = ids
            /\ \A a, b \in 1..Len(ids) : ids[a] = ids[b] => a = b
            /\ Len(calls) = (Len(ids) + 99) \div 100

\* 201 variation ids are retrieved by batches of 100, 100 and 1.
C16_Witness ==
    /\ rd.pc = "done"
    /\ rd.res.status = 200
    /\ Len(CollectedIds(sq.items)) = 201
    /\ LET calls == ReaderCalls("retrieveCounts")
       IN  Len(calls) = 3 /\ Len(calls[1].ids) = 100 /\ Len(calls[3].ids) = 1

\* The request that retrieved the counts of a variation id, if one was made.
CountCallOf(varId) ==
    { k \in 1..Len(rd.calls) :
        /\ rd.calls[k].call = "retrieveCounts"
        /\ \E j \in 1..Len(rd.calls[k].ids) : rd.calls[k].ids[j] = varId }

\* The quantity of the provider's IN_STOCK count of a variation id, if any.
InStockOf(varId) ==
    { DigitsValue(c.quantity) :
        c \in { d \in sq.counts : d.catalog_object_id = varId /\ d.state = "IN_STOCK" } }

\* C19: the quantity of every item returned is the provider's IN_STOCK count
\* of the item's variation; it is 0 when the variation has no IN_STOCK
\* entry, when the item has no variation, and when the count request for its
\* batch failed.
C19_QuantityIsInStockCount ==
    (rd.pc = "done" /\ rd.res.status = 200) =>
        \A k \in 1..Len(rd.res.items) :
            LET item == rd.res.items[k]
                failed == \E c \in CountCallOf(item.variationId) : rd.calls[c].out # "ok"
            IN  IF item.variationId = 0 \/ failed \/ InStockOf(item.variationId) = {}
                THEN item.quantity = 0
                ELSE item.quantity \in InStockOf(item.variationId)

\* One answer holds an item in stock, an item with a SOLD count only, an item
\* without a variation, and an item whose batch of counts was refused.
C19_Witness ==
    /\ rd.pc = "done"
    /\ rd.res.status = 200
    /\ Len(sq.items) = 2 * batchSize
    /\ rd.artistName = << >>
    /\ rd.res.items[1].variationId = 0
    /\ rd.res.items[3].quantity = 2
    /\ rd.res.items[2].quantity = 0
    /\ LET late == rd.res.items[2 * batchSize - 3]
       IN  /\ InStockOf(late.variationId) = { 2 }
           /\ late.quantity = 0
           /\ \E c \in CountCallOf(late.variationId) : rd.calls[c].out = "rej"

\* ------------------------------------------- properties: credentials

\* The request a client has posted to the upload, inventory-update or delete
\* handler was refused at once: error answer, no outbound call, no record
\* processed.
Refused(st) ==
    /\ st.pc = "done"
    /\ st.res.status \in { 400, 500 } /\ ~st.res.success
    /\ st.calls = << >>
    /\ st.results = << >> /\ st.res.results = << >>

\* The same for the inventory-read handler.
ReadRefused ==
    /\ rd.pc = "done"
    /\ rd.res.status = 500 /\ ~rd.res.success
    /\ rd.calls = << >>
    /\ rd.res.items = << >>

TokenMissing == "SQUARE_ACCESS_TOKEN" \notin env
LocationMissing == "SQUARE_LOCATION_ID" \notin env

\* C17 (as stated): when the access token or the location id is not
\* configured, the upload, inventory-read, inventory-update and delete
\* handlers answer with an error at once, issue no provider call and process
\* no record.
C17_MissingCredentialsAreFatal ==
    (TokenMissing \/ LocationMissing) =>
        /\ \A r \in Reqs : up[r].ep # "none" => Refused(up[r])
        /\ rd.pc # "off" => ReadRefused
        /\ sq = SeededCatalog

\* What the handlers do: the upload, inventory-read and inventory-update
\* handlers refuse when the access token or the location id is not
\* configured, the delete handler when the access token is not configured.
TokenIsFatalForDelete ==
    /\ (TokenMissing \/ LocationMissing) =>
          /\ \A r \in Reqs :
                up[r].ep \in { "handler", "update-inventory" } => Refused(up[r])
          /\ rd.pc # "off" => ReadRefused
    /\ TokenMissing =>
          /\ \A r \in Reqs : up[r].ep = "delete" => Refused(up[r])
          /\ sq = SeededCatalog

\* --------------------------------- properties: quantity of a created item

\* C18: after a successful CREATE an inventory call is issued if and only if
\* the record's quantity is greater than 0, an accepted call leaves the new
\* variation with exactly that count, and a record submitted with quantity 0
\* triggers no inventory call and reads back with quantity 0.
C18_InventoryCallIffQuantityPositive ==
    \A r \in Reqs :
        LET st == up[r]
        IN  (st.ep = "handler" /\ st.pc = "done" /\ st.res.status = 200) =>
              \A i \in 1..Len(st.items) :
                  LET quantity == st.items[i].quantity.n
                      calls == CallsAt(st, "setInventory", i)
                      created == { x \in sq.items : x.id = st.res.results[i].squareId }
                  IN  /\ (calls # {}) <=> (quantity > 0)
                      /\ \A x \in created :
                            /\ (\E k \in calls : st.calls[k].out = "ok") => x.count = quantity
                            /\ quantity = 0 => x.count = 0

\* --------------------------------------- properties: concurrent updates

\* The request of a member was answered with the result of its record.
Saved(r) == up[r].ep = "handler" /\ up[r].pc = "done" /\ up[r].res.status = 200

\* The live item upstream.
LiveItem == CHOOSE x \in sq.items : x.id = ReadCopy.squareId

\* C20: of two members who read the same live item, with the same version
\* tokens, and both submit an UPDATE, the provider accepts the first write;
\* the other, with the now stale token, gets success:false for its record
\* and changes nothing of the item upstream: no update is lost.
C20_StaleUpdateIsRejected ==
    \A r1, r2 \in Reqs :
        (r1 # r2 /\ Saved(r1) /\ Saved(r2)) =>
            /\ ~(up[r1].res.results[1].success /\ up[r2].res.results[1].success)
            /\ faults = 0 =>
                  (up[r1].res.results[1].success \/ up[r2].res.results[1].success)
            /\ up[r1].res.results[1].success =>
                  /\ ~up[r2].res.results[1].success
                  /\ up[r2].res.results[1].error # ""
                  /\ LiveItem.name = up[r1].items[1].title
                  /\ LiveItem.version = ReadCopy.version + 1

\* Both members saved; the first write was accepted and the second refused.
C20_Witness ==
    /\ faults = 0
    /\ Saved("api") /\ Saved("portal")
    /\ up["portal"].res.results[1].success
    /\ ~up["api"].res.results[1].success
    /\ LiveItem.name = "T3"

\* ------------------------------------- properties: concurrent creates

\* The category objects of a name in the provider's catalog.
CategoriesNamed(name) == { k \in 1..Len(sq.cats) : sq.cats[k].name = name }

\* The item the provider stored for a request's record.
CreatedFor(r) == \E x \in sq.items : x.origin = WriterRecord(r).id

\* Both requests were answered, no provider call failed, and neither handler
\* saw a category of the name when it started.
BothCreatedUnder(name) ==
    /\ \A r \in Reqs : up[r].ep = "handler" /\ up[r].pc = "done"
                       /\ name \notin up[r].startNames
    /\ faults = 0

\* C21: whatever the interleaving of two requests that each create an item
\* under the same category name (display or reporting) which the provider
\* does not hold yet, both items are created and the provider holds exactly
\* one category object of that name afterwards.
C21_CreatesCannotConflict ==
    \A name \in { CategoryNameOf(WriterRecord("api")), WriterRecord("api").artistName } :
        BothCreatedUnder(name) =>
            /\ \A r \in Reqs : CreatedFor(r)
            /\ Cardinality(CategoriesNamed(name)) = 1

\* ------------------------------------- properties: the archive entry

\* The archived records of a list that stand for the item of a provider id.
Archived(list, squareId) == { k \in 1..Len(list) : list[k].squareId = squareId }

\* A client's last operation was an accepted archive of an item whose record
\* the persisted list does not hold.
LostArchiveOf(c) ==
    /\ c.last.op = "archive" /\ c.last.ok
    /\ Archived(c.archive, c.last.squareId) # {}
    /\ Archived(kv.value, c.last.squareId) = {}

\* C22: a save writes the saving client's own list over the entry, whatever
\* the entry held, so that two clients that loaded the same list and archive
\* different items can leave an entry without the record of one of them.
C22_SaveOverwritesBlob ==
    [][kv' # kv =>
          /\ kv'.set
          /\ portal' # portal => kv'.value = portal'.archive
          /\ peer' # peer => kv'.value = peer'.archive]_vars

\* Both clients archived a different item, every call was answered OK, and the
\* entry lacks the record of one of them.
C22_Witness ==
    /\ faults = 0 /\ kv.set
    /\ portal.last.op = "archive" /\ portal.last.ok
    /\ peer.last.op = "archive" /\ peer.last.ok
    /\ portal.last.squareId # peer.last.squareId
    /\ LostArchiveOf(portal) \/ LostArchiveOf(peer)

\* The item of a provider id is live in the provider's catalog.
LiveUpstream(squareId) == \E x \in sq.items : x.id = squareId

\* C23: once handleArchive has finished, whatever the upstream delete and the
\* KV write came to, the artwork is still live upstream or its record is in
\* the persisted archive list; an archive that was reported to the user as
\* successful has its record persisted.
C23_ArchiveLosesNoArtwork ==
    portal.last.op = "archive" =>
        /\ LiveUpstream(portal.last.squareId)
              \/ Archived(kv.value, portal.last.squareId) # {}
        /\ portal.last.ok => Archived(kv.value, portal.last.squareId) # {}

\* C24: with a single client, every list that an archive or a restore
\* persists keeps all records persisted before it, other than the record
\* being restored, also when the load of the archive failed or returned
\* nothing.
C24_SavesKeepPersistedRecords ==
    [][kv' # kv =>
          \A j \in 1..Len(kv.value) :
              \/ kv.value[j].squareId = portal.cur.squareId
              \/ \E i \in 1..Len(kv'.value) : kv'.value[i] = kv.value[j]]_vars

\* ------------------------------------------ properties: the edit flow

\* C25: the edit flow reports the item as updated only if the result of the
\* submitted record is tagged success:true; an UPDATE that the provider
\* rejected is shown as a failure and the form stays open.
C25_EditReportsRecordResult ==
    (portal.pc = "idle" /\ portal.last.op = "edit" /\ portal.last.ok) =>
        /\ Len(up["portal"].res.results) = 1
        /\ up["portal"].res.results[1].success

\* The description carries a line of each of the three labels.
CarriesAllLabels(s) ==
    \A label \in { "Medium:", "Dimensions:", "Discounts:" } : LabelAt(s, label) # 0

\* C26: for a live item whose upstream description carries Medium, Dimensions
\* and Discounts lines, reading it and saving it through the edit flow with
\* only the title changed leaves the same three values in the description.
C26_EditKeepsEncodedAttributes ==
    (pure.pc = "rewritten" /\ CarriesAllLabels(pure.before)) =>
        \A label \in { "Medium:", "Dimensions:", "Discounts:" } :
            Captured(pure.after, label) = Captured(pure.before, label)

\* ------------------------------------- properties: rejected updates

\* The calls of a request that wrote a catalog object for the record at batch
\* position i: a category, an item or a count the provider accepted.
WritesFor(st, i) ==
    { c \in 1..Len(st.calls) :
        /\ st.calls[c].i = i
        /\ st.calls[c].call \in { "createCategory", "createItem", "updateItem",
                                  "setInventory" }
        /\ st.calls[c].out = "ok" }

\* C27: a record whose result is success:false has caused no write of a
\* catalog object: no item, variation or category was created or modified
\* on its behalf.
C27_RejectedUpdateWritesNothing ==
    \A r \in Reqs :
        LET st == up[r]
        IN  st.ep = "handler" =>
              \A i \in 1..Len(st.results) :
                  ~st.results[i].success => WritesFor(st, i) = {}

\* ------------------------------ properties: failed archive and restore

\* The step is handleArchive, from its confirmation to its end.
ArchiveStep ==
    portal.pc = "idle" /\ portal'.pc = "idle" /\ portal'.ops = portal.ops + 1

\* The step is the part of handleRestore that follows the upload's answer.
RestoreStep == portal.pc = "restoring" /\ portal'.pc = "idle"

\* The upload request of the portal created an item upstream.
CreatedUpstream ==
    \E c \in 1..Len(up["portal"].calls) :
        up["portal"].calls[c].call = "createItem" /\ up["portal"].calls[c].out = "ok"

\* C28: when the upstream delete fails in the archive flow, or the upstream
\* create fails in the restore flow, nothing is written to the KV store and
\* the archive list, in memory and persisted, is what it was before; the
\* item of a failed archive stays live and the record of a failed restore
\* stays in the archive.
C28_FailureLeavesArchiveUntouched ==
    [][/\ (ArchiveStep /\ ~portal'.last.ok) =>
              /\ kv' = kv /\ portal'.archive = portal.archive
              /\ sq' = sq
       /\ (RestoreStep /\ ~CreatedUpstream) =>
              /\ kv' = kv /\ portal'.archive = portal.archive
              /\ Archived(portal'.archive, portal.cur.squareId) # {}]_vars

\* A restore failed after the record had been archived and persisted: the
\* record is still in both lists and no item was created for it.
C28_Witness ==
    /\ portal.pc = "idle" /\ portal.last.op = "restore" /\ ~portal.last.ok
    /\ ~CreatedUpstream
    /\ kv.set /\ Archived(kv.value, portal.last.squareId) # {}
    /\ Archived(portal.archive, portal.last.squareId) # {}
    /\ sq.items = {}

\* ------------------------------------------ properties: SKU uniqueness

\* C29: any two CREATE records of the same artist, in the same batch or in
\* different batches, are given different SKUs.
C29_SkusAreUniquePerArtist ==
    pure.pc = "both" => pure.sku1 # pure.sku2

\* ----------------------------------------- properties: member isolation

\* C30: every item that the portal's inventory load shows to a member who is
\* neither admin nor it has an artist name equal to the member's full name,
\* both lower-cased and trimmed, whatever the names are.
C30_MembersSeeOwnItemsOnly ==
    (portal.pc = "idle" /\ ~isAdmin(portal.member)) =>
        \A k \in 1..Len(portal.inventory) :
            Trim(ToLowerCase(portal.inventory[k].artistName))
                = Trim(ToLowerCase(portal.member.full_name))

====
